---- MODULE Spec2Model ----
(***************************************************************************)
(* The NEM ingestion pipelines of QK258/NEM_data as one state machine.     *)
(*                                                                         *)
(* Five scripts share one shape (list, skip what the tracker holds, fetch, *)
(* read, write, track) and differ in where they catch errors and when they *)
(* insert into the tracker:                                                *)
(*   "fast"     scripts/TradingIS_price_imp.py                             *)
(*   "scada"    scripts/DispatchSCADA_imp.py                               *)
(*   "current"  scripts/TradingIS_price_current_imp.py                     *)
(*   "mtpasa"   scripts/MTPASA_DUID_Avail_imp.py                           *)
(*   "historic" scripts/Scrap previous years.py                            *)
(* A behaviour fixes one script (variant) and runs it up to MaxRuns times  *)
(* against the same remote listing; the tracker table, the local archive   *)
(* directory and the parquet dataset persist from run to run.              *)
(*                                                                         *)
(* Inputs.  A remote archive is a record [readable, members]: members is   *)
(* the sequence of its report files, each of one kind:                     *)
(*   "ok"    a header and one data row of the target table, valid date     *)
(*   "bad"   a header and one data row whose SETTLEMENTDATE does not parse *)
(*   "none"  no data row of the target table                               *)
(* The listing holds distinct file names (a directory page), in the order  *)
(* 1..N.  Failures of the environment (network, disk, database) are        *)
(* nondeterministic at every call that can raise.                          *)
(***************************************************************************)
EXTENDS Integers, Sequences, FiniteSets, TLC

\* ------------------------------------------------------------------ bounds
NumFiles == 2
MaxMembers == 2
MaxRuns == 2
NumCsvFiles == 5
\* Lines of one report file at the row level.
MaxRows == 3
\* File names the tracker table is exercised on.
NumNames == 3
\* Lines of one report file when whole archives are parsed.
MaxLines == 2
\* chunks of one response body
MaxChunks == 2
\* archive links on one listing page
MaxLinks == 11
\* links handed to one call of the date filter
MaxHrefs == 3
\* rows of one source CSV of the historical import
MaxCsvRows == 2

\* ------------------------------------------------------- program constants
\* Scrap previous years.py:281  if len(all_data) >= 5
FLUSH_EVERY == 5
\* MTPASA_DUID_Avail_imp.py:64  sorted(all_links)[-10:]
FALLBACK_LAST == 10
\* TradingIS_price_current_imp.py:28-35  len(PRICE_COLUMNS)
NumPriceColumns == 30
\* Scrap previous years.py:24  TARGET_YEAR = 2024
TARGET_YEAR == 2024
\* Scrap previous years.py:26  CUTOFF_DATE = "2024-06-09", as yyyymmdd
CUTOFF_DATE == 20240609

VARIABLES
    variant,            \* which script this behaviour runs
    run,                \* number of the current invocation
    pc,                 \* position of the script
    exit_status,        \* "running", "0", "1" or "killed"
    summary,            \* the final summary lines were printed
    content,            \* what the remote serves for each file name
    recent,             \* links the date / name filter of the script keeps
    local,              \* ZIP_DIR: "absent", "junk" or "complete" per file
    tracker,            \* rows of the processed_files* table
    dataset,            \* parquet dataset: copies written per (file, member)
    existing_files,     \* set loaded from the tracker at run start
    zip_links,          \* the links (or CSV paths) the run works through
    idx,                \* position of the current loop
    new_files,          \* fast: recent links not in existing_files
    downloaded_files,   \* fast: files ready for processing
    failed_downloads,   \* fast: counter of failed downloads
    processed_files,    \* fast, historic: files to insert at run end
    total_records,      \* fast, historic: sum of the writers' return values
    all_data,           \* historic: files of the batch being collected
    log,                \* per-run record of what the run did (history)
    dataset0,           \* dataset as it was when the run started (history)
    prev,               \* how the previous run ended, and the tracker
                        \* table as this run found it (history)
    unit,               \* the function exercised on its own ("none": a script)
    input,              \* the argument handed to that function
    result              \* what the function has produced so far

vars == <<variant, run, pc, exit_status, summary, content, recent, local,
          tracker, dataset, existing_files, zip_links, idx, new_files,
          downloaded_files, failed_downloads, processed_files, total_records, all_data, log,
          dataset0, prev, unit, input, result>>

\* The state of a function that is exercised on its own.
unitVars == <<unit, input, result>>

\* ----------------------------------------------------------------- helpers
Variants == {"fast", "scada", "current", "mtpasa", "historic"}
ArchiveVariants == {"scada", "current", "mtpasa"}

MemberKinds == {"none", "bad", "ok"}

Corrupt == [readable |-> FALSE, members |-> <<>>]

Archives(maxlen) ==
    {Corrupt} \cup
    {[readable |-> TRUE, members |-> ms] :
        ms \in UNION {[1..n -> MemberKinds] : n \in 1..maxlen}}

Range(s) == {s[i] : i \in 1..Len(s)}

\* File names of the listing (archives) or of the source directory (CSVs).
Files(v) == IF v = "historic" THEN 1..NumCsvFiles ELSE 1..NumFiles

AllFiles == 1..(IF NumCsvFiles > NumFiles THEN NumCsvFiles ELSE NumFiles)

Members == 1..MaxMembers

\* The listing page: every file, in name order.
Listing == [i \in 1..Cardinality(Files(variant)) |-> i]

EmptyLog ==
    [fetched   |-> {},   \* files requested over the network
     parsed    |-> {},   \* files whose archive / CSV was opened and read
     wrote     |-> {},   \* files for which the writer was called
     wrReturned |-> {},  \* files whose writer call has returned
     wrFailed  |-> {},   \* files whose writer call raised
     dlFailed  |-> {},   \* files whose download failed
     procFailed |-> {},  \* files whose processing raised
     saved     |-> {},   \* files whose batch the writer wrote
     fatal     |-> "none", \* "tracker" or "listing" when the run gave up
     inserts   |-> <<>>, \* tracker INSERT statements, in order
     returned  |-> <<>>] \* counts the writer returned, in order

NoPrev == [ended |-> "none", dlFail |-> FALSE, wrFail |-> FALSE,
           trackerAtStart |-> {}]

\* The archive a reader finds at zip_path: a junk file is no archive.
LocalArchive(f) == IF local[f] = "complete" THEN content[f] ELSE Corrupt

\* The membership test of every variant: filename in existing_files.
AlreadyProcessedDropped(f) == FALSE

AlreadyProcessed(f) == f \in existing_files

InsertReplacing(table, names) == names

\* INSERT OR IGNORE INTO processed_files* : the primary key keeps one row.
InsertOrIgnore(table, names) == table \cup names

EmptyDataset == [u \in AllFiles \X Members |-> 0]

\* pq.write_to_dataset appends one copy of each row of the batch.
WriteRows(ds, f, ms) ==
    [u \in DOMAIN ds |-> IF u[1] = f /\ u[2] \in ms THEN ds[u] + 1 ELSE ds[u]]

RowCount(ds, f) ==
    LET RECURSIVE Sum(_)
        Sum(m) == IF m = 0 THEN 0 ELSE ds[<<f, m>>] + Sum(m - 1)
    IN Sum(MaxMembers)

\* ------------------------------------------------------------------- Init
Init ==
    /\ variant \in Variants
    /\ run = 1
    /\ pc = "start"
    /\ exit_status = "running"
    /\ summary = FALSE
    /\ content \in [Files(variant) ->
                      IF variant \in ArchiveVariants
                      THEN Archives(MaxMembers) ELSE Archives(1)]
    /\ recent \in IF variant \in {"fast", "mtpasa"}
                  THEN SUBSET Files(variant) ELSE {Files(variant)}
    /\ local = [f \in Files(variant) |->
                  IF variant = "historic" THEN "complete" ELSE "absent"]
    /\ tracker = {}
    /\ dataset = EmptyDataset
    /\ existing_files = {}
    /\ zip_links = <<>>
    /\ idx = 0
    /\ new_files = <<>>
    /\ downloaded_files = <<>>
    /\ failed_downloads = 0
    /\ processed_files = <<>>
    /\ total_records = 0
    /\ all_data = <<>>
    /\ log = EmptyLog
    /\ dataset0 = EmptyDataset
    /\ prev = NoPrev
    /\ unit = "none"
    /\ input = <<>>
    /\ result = <<>>

\* The process ends: exit(code), the end of the script, or a kill.
Exit(code, printed) ==
    /\ pc' = "exited"
    /\ exit_status' = code
    /\ summary' = printed

\* The operator starts the script again; only the persistent state (tracker,
\* ZIP_DIR, dataset) and the remote survive.
StartRun ==
    /\ pc = "exited"
    /\ run < MaxRuns
    /\ run' = run + 1
    /\ pc' = "start"
    /\ exit_status' = "running"
    /\ summary' = FALSE
    /\ existing_files' = {}
    /\ zip_links' = <<>>
    /\ idx' = 0
    /\ new_files' = <<>>
    /\ downloaded_files' = <<>>
    /\ failed_downloads' = 0
    /\ processed_files' = <<>>
    /\ total_records' = 0
    /\ all_data' = <<>>
    /\ prev' = [ended  |-> IF summary THEN "summary" ELSE exit_status,
                dlFail |-> log.dlFailed # {},
                wrFail |-> log.wrFailed # {},
                trackerAtStart |-> tracker]
    /\ log' = EmptyLog
    /\ dataset0' = dataset
    /\ UNCHANGED unitVars
    /\ UNCHANGED <<variant, content, recent, local, tracker, dataset>>

\* =========================================================================
\* scripts/TradingIS_price_imp.py  (variant "fast")
\* =========================================================================

\* link.split("/")[-1]: the model's links are their file names.
Filename(link) == link

\* download_file_fast: net is what the network does if it is asked.
\*   "ok"       the body arrives and is written
\*   "error"    the GET or raise_for_status raises, nothing is written
\*   "partial"  an exception after some chunks were written to zip_path
\*   "empty"    an empty body: the empty file is removed
download_file_fast(f, net) ==
    IF local[f] # "absent"
    THEN [status |-> "exists", file |-> local[f], requested |-> FALSE]
    ELSE IF net = "ok"
    THEN [status |-> "downloaded", file |-> "complete", requested |-> TRUE]
    ELSE IF net = "partial"
    THEN [status |-> "failed", file |-> "junk", requested |-> TRUE]
    ELSE [status |-> "failed", file |-> "absent", requested |-> TRUE]

NetOutcomes == {"ok", "error", "partial", "empty"}

\* filter_recent_files keeps the links whose name date passes the cutoff,
\* in listing order.
filter_recent_files(all_links) ==
    SelectSeq(all_links, LAMBDA l : l \in recent)

NotExistingDropped(link) == TRUE

NotExisting(link) == ~AlreadyProcessed(Filename(link))

\* process_file_fast: the captured rows of every CSV of the archive, one
\* per member that has a D,TRADING,PRICE row after its header; [] when the
\* zip is missing or cannot be read.
process_file_fast(f) ==
    IF local[f] = "absent" THEN <<>>
    ELSE LET a == LocalArchive(f)
             rows == [m \in 1..Len(a.members) |->
                        [member |-> m, kind |-> a.members[m]]]
         IN IF a.readable
            THEN SelectSeq(rows, LAMBDA r : r.kind # "none")
            ELSE <<>>

\* write_batch_to_parquet: the rows that reach pq.write_to_dataset.  Rows
\* whose SETTLEMENTDATE is NaT are dropped; an exception anywhere in the
\* try block writes nothing.  The return value is the length of the result
\* (0 for an empty batch, an empty frame and an exception alike).
write_batch_to_parquet(batch_data, raises) ==
    IF batch_data = <<>> \/ raises THEN <<>>
    ELSE SelectSeq(batch_data, LAMBDA r : r.kind = "ok")

\* lines 270-277: open the tracker and load it.
FastDbSetup ==
    /\ variant = "fast" /\ pc = "start"
    /\ existing_files' = tracker
    /\ pc' = "phase0"
    /\ UNCHANGED unitVars
    /\ UNCHANGED <<variant, zip_links, run, exit_status, summary, content, recent,
                   local, tracker, dataset, idx, new_files, downloaded_files,
                   failed_downloads, processed_files, total_records,
                   all_data, log, dataset0, prev>>

FastDbFailContinues ==
    /\ variant = "fast" /\ pc = "start"
    /\ log' = [log EXCEPT !.fatal = "tracker"]
    /\ existing_files' = {}
    /\ pc' = "phase0"
    /\ UNCHANGED unitVars
    /\ UNCHANGED <<variant, zip_links, run, exit_status, summary, content,
                   recent, local, tracker, dataset, idx, new_files,
                   downloaded_files, failed_downloads, processed_files,
                   total_records, all_data, dataset0, prev>>

\* lines 275-277: duckdb.connect raises: exit(1).
FastDbFail ==
    /\ variant = "fast" /\ pc = "start"
    /\ log' = [log EXCEPT !.fatal = "tracker"]
    /\ Exit("1", FALSE)
    /\ UNCHANGED unitVars
    /\ UNCHANGED <<variant, zip_links, run, content, recent, local, tracker, dataset,
                   existing_files, idx, new_files, downloaded_files,
                   failed_downloads, processed_files, total_records,
                   all_data, dataset0, prev>>

\* lines 283-288, debug_website_access returned links.
FastListing ==
    /\ variant = "fast" /\ pc = "phase0"
    /\ Listing # <<>>
    /\ zip_links' = Listing
    /\ pc' = "phase1"
    /\ UNCHANGED unitVars
    /\ UNCHANGED <<variant, run, exit_status, summary, content, recent,
                   local, tracker, dataset, existing_files, idx, new_files,
                   downloaded_files, failed_downloads, processed_files,
                   total_records, all_data, log, dataset0, prev>>

\* lines 66-75 and 285-288: a network error or a status other than 200
\* gives no links: exit(1).
FastListingFail ==
    /\ variant = "fast" /\ pc = "phase0"
    /\ log' = [log EXCEPT !.fatal = "listing"]
    /\ Exit("1", FALSE)
    /\ UNCHANGED unitVars
    /\ UNCHANGED <<variant, zip_links, run, content, recent, local, tracker, dataset,
                   existing_files, idx, new_files, downloaded_files,
                   failed_downloads, processed_files, total_records,
                   all_data, dataset0, prev>>

FastNoRecentFallsBack ==
    /\ variant = "fast" /\ pc = "phase1"
    /\ filter_recent_files(zip_links) = <<>>
    /\ new_files' = SelectSeq(zip_links, NotExisting)
    /\ pc' = "phase2"
    /\ idx' = 1
    /\ UNCHANGED unitVars
    /\ UNCHANGED <<variant, zip_links, run, exit_status, summary, content,
                   recent, local, tracker, dataset, existing_files,
                   downloaded_files, failed_downloads, processed_files,
                   total_records, all_data, log, dataset0, prev>>

\* lines 294-299: no link passes the date filter: exit(0).
FastNoRecent ==
    /\ variant = "fast" /\ pc = "phase1"
    /\ filter_recent_files(zip_links) = <<>>
    /\ Exit("0", FALSE)
    /\ UNCHANGED unitVars
    /\ UNCHANGED <<variant, zip_links, run, content, recent, local, tracker, dataset,
                   existing_files, idx, new_files, downloaded_files,
                   failed_downloads, processed_files, total_records,
                   all_data, log, dataset0, prev>>

\* lines 301-317: every recent file is tracked already: exit(0).
FastNoNew ==
    /\ variant = "fast" /\ pc = "phase1"
    /\ filter_recent_files(zip_links) # <<>>
    /\ SelectSeq(filter_recent_files(zip_links), NotExisting) = <<>>
    /\ Exit("0", FALSE)
    /\ UNCHANGED unitVars
    /\ UNCHANGED <<variant, zip_links, run, content, recent, local, tracker, dataset,
                   existing_files, idx, new_files, downloaded_files,
                   failed_downloads, processed_files, total_records,
                   all_data, log, dataset0, prev>>

\* lines 301-331: the new files become the download tasks.
FastSelect ==
    /\ variant = "fast" /\ pc = "phase1"
    /\ SelectSeq(filter_recent_files(zip_links), NotExisting) # <<>>
    /\ new_files' = SelectSeq(filter_recent_files(zip_links), NotExisting)
    /\ pc' = "phase2"
    /\ idx' = 1
    /\ UNCHANGED unitVars
    /\ UNCHANGED <<variant, zip_links, run, exit_status, summary, content, recent,
                   local, tracker, dataset, existing_files, downloaded_files,
                   failed_downloads, processed_files, total_records,
                   all_data, log, dataset0, prev>>

FastDownloadStopsOnFailure ==
    /\ variant = "fast" /\ pc = "phase2"
    /\ idx <= Len(new_files)
    /\ \E net \in NetOutcomes :
         LET f == Filename(new_files[idx])
             r == download_file_fast(f, net)
         IN /\ local' = [local EXCEPT ![f] = r.file]
            /\ IF r.status \in {"downloaded", "exists"}
               THEN /\ downloaded_files' = Append(downloaded_files, f)
                    /\ UNCHANGED failed_downloads
               ELSE /\ failed_downloads' = failed_downloads + 1
                    /\ UNCHANGED downloaded_files
            /\ log' = [log EXCEPT
                 !.fetched = IF r.requested THEN @ \cup {f} ELSE @,
                 !.dlFailed = IF r.status = "failed" THEN @ \cup {f} ELSE @]
            /\ idx' = IF r.status = "failed"
                      THEN Len(new_files) + 1 ELSE idx + 1
    /\ UNCHANGED unitVars
    /\ UNCHANGED <<variant, zip_links, run, pc, exit_status, summary, content, recent,
                   tracker, dataset, existing_files, new_files,
                   processed_files, total_records, all_data, dataset0, prev>>

\* lines 335-345: one iteration of the download loop.
FastDownload ==
    /\ variant = "fast" /\ pc = "phase2"
    /\ idx <= Len(new_files)
    /\ \E net \in NetOutcomes :
         LET f == Filename(new_files[idx])
             r == download_file_fast(f, net)
         IN /\ local' = [local EXCEPT ![f] = r.file]
            /\ IF r.status \in {"downloaded", "exists"}
               THEN /\ downloaded_files' = Append(downloaded_files, f)
                    /\ UNCHANGED failed_downloads
               ELSE /\ failed_downloads' = failed_downloads + 1
                    /\ UNCHANGED downloaded_files
            /\ log' = [log EXCEPT
                 !.fetched = IF r.requested THEN @ \cup {f} ELSE @,
                 !.dlFailed = IF r.status = "failed" THEN @ \cup {f} ELSE @]
    /\ idx' = idx + 1
    /\ UNCHANGED unitVars
    /\ UNCHANGED <<variant, zip_links, run, pc, exit_status, summary, content, recent,
                   tracker, dataset, existing_files, new_files,
                   processed_files, total_records, all_data, dataset0, prev>>

\* lines 349-352: nothing is ready: exit(1).
FastNoDownloads ==
    /\ variant = "fast" /\ pc = "phase2"
    /\ idx > Len(new_files)
    /\ downloaded_files = <<>>
    /\ Exit("1", FALSE)
    /\ UNCHANGED unitVars
    /\ UNCHANGED <<variant, zip_links, run, content, recent, local, tracker, dataset,
                   existing_files, idx, new_files, downloaded_files,
                   failed_downloads, processed_files, total_records,
                   all_data, log, dataset0, prev>>

\* lines 357-360: phase 3 starts.
FastStartProcessing ==
    /\ variant = "fast" /\ pc = "phase2"
    /\ idx > Len(new_files)
    /\ downloaded_files # <<>>
    /\ pc' = "phase3"
    /\ idx' = 1
    /\ UNCHANGED unitVars
    /\ UNCHANGED <<variant, zip_links, run, exit_status, summary, content, recent,
                   local, tracker, dataset, existing_files, new_files,
                   downloaded_files, failed_downloads, processed_files,
                   total_records, all_data, log, dataset0, prev>>

FastProcessCountsCaptured ==
    /\ variant = "fast" /\ pc = "phase3"
    /\ idx <= Len(downloaded_files)
    /\ \E raises \in BOOLEAN :
         LET f == downloaded_files[idx]
             file_data == process_file_fast(f)
             written == write_batch_to_parquet(file_data, raises)
             records_written == Len(written)
         IN /\ (file_data = <<>>) => ~raises
            /\ IF file_data # <<>>
               THEN /\ dataset' = WriteRows(dataset, f,
                                     {written[i].member : i \in 1..Len(written)})
                    /\ total_records' = total_records + Len(file_data)
                    /\ processed_files' = Append(processed_files, f)
                    /\ log' = [log EXCEPT
                         !.parsed = @ \cup {f},
                         !.wrote = @ \cup {f},
                         !.wrReturned = @ \cup {f},
                         !.wrFailed = IF raises THEN @ \cup {f} ELSE @,
                         !.saved = IF written # <<>> THEN @ \cup {f} ELSE @,
                         !.returned = Append(@, records_written)]
               ELSE /\ log' = [log EXCEPT !.parsed = @ \cup {f}]
                    /\ UNCHANGED <<dataset, total_records, processed_files>>
    /\ idx' = idx + 1
    /\ UNCHANGED unitVars
    /\ UNCHANGED <<variant, zip_links, run, pc, exit_status, summary, content, recent,
                   local, tracker, existing_files, new_files,
                   downloaded_files, failed_downloads, all_data, dataset0,
                   prev>>

\* lines 362-372: one iteration of the processing loop.  A file with
\* captured rows is appended to processed_files whatever the writer returns.
FastProcess ==
    /\ variant = "fast" /\ pc = "phase3"
    /\ idx <= Len(downloaded_files)
    /\ \E raises \in BOOLEAN :
         LET f == downloaded_files[idx]
             file_data == process_file_fast(f)
             written == write_batch_to_parquet(file_data, raises)
             records_written == Len(written)
         IN /\ (file_data = <<>>) => ~raises
            /\ IF file_data # <<>>
               THEN /\ dataset' = WriteRows(dataset, f,
                                     {written[i].member : i \in 1..Len(written)})
                    /\ total_records' = total_records + records_written
                    /\ processed_files' = Append(processed_files, f)
                    /\ log' = [log EXCEPT
                         !.parsed = @ \cup {f},
                         !.wrote = @ \cup {f},
                         !.wrReturned = @ \cup {f},
                         !.wrFailed = IF raises THEN @ \cup {f} ELSE @,
                         !.saved = IF written # <<>> THEN @ \cup {f} ELSE @,
                         !.returned = Append(@, records_written)]
               ELSE /\ log' = [log EXCEPT !.parsed = @ \cup {f}]
                    /\ UNCHANGED <<dataset, total_records, processed_files>>
    /\ idx' = idx + 1
    /\ UNCHANGED unitVars
    /\ UNCHANGED <<variant, zip_links, run, pc, exit_status, summary, content, recent,
                   local, tracker, existing_files, new_files,
                   downloaded_files, failed_downloads, all_data, dataset0,
                   prev>>

\* The run is interrupted between two files of phase 3 (KeyboardInterrupt):
\* the finally block closes the connection and the process dies.
FastInterrupt ==
    /\ variant = "fast" /\ pc = "phase3"
    /\ Exit("killed", FALSE)
    /\ UNCHANGED unitVars
    /\ UNCHANGED <<variant, zip_links, run, content, recent, local, tracker, dataset,
                   existing_files, idx, new_files, downloaded_files,
                   failed_downloads, processed_files, total_records,
                   all_data, log, dataset0, prev>>

\* The file names phase 4 hands to executemany.
FilesToTrackDownloaded == downloaded_files

FilesToTrack == processed_files

\* lines 379-422: phase 4 inserts every processed file, then the script
\* prints the final summary and ends.
FastUpdateDatabase ==
    /\ variant = "fast" /\ pc = "phase3"
    /\ idx > Len(downloaded_files)
    /\ tracker' = InsertOrIgnore(tracker, Range(FilesToTrack))
    /\ log' = [log EXCEPT !.inserts = @ \o FilesToTrack]
    /\ Exit("0", TRUE)
    /\ UNCHANGED unitVars
    /\ UNCHANGED <<variant, zip_links, run, content, recent, local, dataset,
                   existing_files, idx, new_files, downloaded_files,
                   failed_downloads, processed_files, total_records,
                   all_data, dataset0, prev>>

NextFast ==
    \/ FastDbSetup \/ FastDbFail \/ FastListing \/ FastListingFail
    \/ FastNoRecent \/ FastNoNew \/ FastSelect \/ FastDownload
    \/ FastNoDownloads \/ FastStartProcessing \/ FastProcess
    \/ FastInterrupt \/ FastUpdateDatabase

\* =========================================================================
\* scripts/DispatchSCADA_imp.py ("scada"), TradingIS_price_current_imp.py
\* ("current") and MTPASA_DUID_Avail_imp.py ("mtpasa"): one loop over the
\* links that downloads, reads, writes and tracks each file in turn.
\* =========================================================================
constEnv == <<variant, content, recent>>
fastOnly == <<new_files, downloaded_files, failed_downloads, processed_files,
              total_records, all_data>>

\* What the archive GET can do.  scada and mtpasa call raise_for_status, so
\* an error response raises; current writes whatever body came back.
DownloadOutcomes(v) ==
    IF v = "current" THEN {"ok", "error", "errorbody"} ELSE {"ok", "error"}

\* zip_path after the download block of the loop (lines 51-61 of scada).
AfterDownload(f, net) ==
    IF local[f] # "absent" THEN local[f]
    ELSE IF net = "ok" THEN "complete"
    ELSE IF net = "errorbody" THEN "junk"
    ELSE "absent"

\* The member kinds whose frame reaches pq.write_to_dataset.  scada and
\* current skip a member on a date parse error (continue); mtpasa falls
\* back to errors='coerce' and writes the rows under report_date NaT.
WrittenKinds(v) == IF v = "mtpasa" THEN {"bad", "ok"} ELSE {"ok"}

\* The members written by the member loop when the processing of member
\* failAt raises (0: nothing raises).
MembersWritten(a, failAt) ==
    {m \in 1..Len(a.members) :
        /\ a.members[m] \in WrittenKinds(variant)
        /\ (failAt = 0 \/ m < failAt)}

\* mtpasa lines 42-64: the links of 2025 onwards, or the last 10 by name.
LastN(s, n) == IF Len(s) <= n THEN s ELSE SubSeq(s, Len(s) - n + 1, Len(s))

Candidates(links) ==
    IF variant # "mtpasa" THEN links
    ELSE LET filtered_links == SelectSeq(links, LAMBDA l : l \in recent)
         IN IF filtered_links # <<>> THEN filtered_links
            ELSE LastN(links, FALLBACK_LAST)

\* duckdb.connect and the load of existing_files (scada lines 29-31).
ArchStart ==
    /\ variant \in ArchiveVariants /\ pc = "start"
    /\ existing_files' = tracker
    /\ pc' = "listing"
    /\ UNCHANGED unitVars
    /\ UNCHANGED <<constEnv, fastOnly, run, exit_status, summary, local,
                   tracker, dataset, zip_links, idx, log, dataset0, prev>>

\* duckdb.connect raises outside any try: the script dies with a traceback.
ArchDbFail ==
    /\ variant \in ArchiveVariants /\ pc = "start"
    /\ log' = [log EXCEPT !.fatal = "tracker"]
    /\ Exit("1", FALSE)
    /\ UNCHANGED unitVars
    /\ UNCHANGED <<constEnv, fastOnly, run, local, tracker, dataset,
                   existing_files, zip_links, idx, dataset0, prev>>

\* The listing page arrives (scada lines 35-39).
ArchListing ==
    /\ variant \in ArchiveVariants /\ pc = "listing"
    /\ zip_links' = Candidates(Listing)
    /\ pc' = "loop"
    /\ idx' = 1
    /\ UNCHANGED unitVars
    /\ UNCHANGED <<constEnv, fastOnly, run, exit_status, summary, local,
                   tracker, dataset, existing_files, log, dataset0, prev>>

\* requests.get raises: exit(1) (scada lines 40-42; uncaught in current).
ArchListingFail ==
    /\ variant \in ArchiveVariants /\ pc = "listing"
    /\ log' = [log EXCEPT !.fatal = "listing"]
    /\ Exit("1", FALSE)
    /\ UNCHANGED unitVars
    /\ UNCHANGED <<constEnv, fastOnly, run, local, tracker, dataset,
                   existing_files, zip_links, idx, dataset0, prev>>

\* The GET returns an error status: no script checks it, the error page
\* holds no .zip link and the loop has nothing to do.
ArchListingErrorPage ==
    /\ variant \in ArchiveVariants /\ pc = "listing"
    /\ zip_links' = <<>>
    /\ log' = [log EXCEPT !.fatal = "errorpage"]
    /\ pc' = "loop"
    /\ idx' = 1
    /\ UNCHANGED unitVars
    /\ UNCHANGED <<constEnv, fastOnly, run, exit_status, summary, local,
                   tracker, dataset, existing_files, dataset0, prev>>

\* scada lines 46-49: the file is in existing_files.
ArchSkip ==
    /\ variant \in ArchiveVariants /\ pc = "loop"
    /\ idx <= Len(zip_links)
    /\ AlreadyProcessed(Filename(zip_links[idx]))
    /\ idx' = idx + 1
    /\ UNCHANGED unitVars
    /\ UNCHANGED <<constEnv, fastOnly, run, pc, exit_status, summary, local,
                   tracker, dataset, existing_files, zip_links, log,
                   dataset0, prev>>

ArchDownloadFailBreaks ==
    /\ variant \in ArchiveVariants /\ pc = "loop"
    /\ idx <= Len(zip_links)
    /\ LET f == Filename(zip_links[idx])
       IN /\ ~AlreadyProcessed(f)
          /\ local[f] = "absent"
          /\ log' = [log EXCEPT !.fetched = @ \cup {f},
                                !.dlFailed = @ \cup {f}]
    /\ idx' = Len(zip_links) + 1
    /\ UNCHANGED unitVars
    /\ UNCHANGED <<constEnv, fastOnly, run, pc, exit_status, summary, local,
                   tracker, dataset, existing_files, zip_links, dataset0,
                   prev>>

\* scada lines 51-61: the download raises: continue with the next link.
ArchDownloadFail ==
    /\ variant \in ArchiveVariants /\ pc = "loop"
    /\ idx <= Len(zip_links)
    /\ LET f == Filename(zip_links[idx])
       IN /\ ~AlreadyProcessed(f)
          /\ local[f] = "absent"
          /\ log' = [log EXCEPT !.fetched = @ \cup {f},
                                !.dlFailed = @ \cup {f}]
    /\ idx' = idx + 1
    /\ UNCHANGED unitVars
    /\ UNCHANGED <<constEnv, fastOnly, run, pc, exit_status, summary, local,
                   tracker, dataset, existing_files, zip_links, dataset0,
                   prev>>

\* scada lines 51-134: the archive is on disk (or arrives now) and reading
\* it or processing member failAt raises: the members before it are in the
\* dataset, the file is not tracked, the loop continues.
ArchProcessFail ==
    /\ variant \in ArchiveVariants /\ pc = "loop"
    /\ idx <= Len(zip_links)
    /\ \E net \in DownloadOutcomes(variant) \ {"error"} :
       LET f == Filename(zip_links[idx])
           file == AfterDownload(f, net)
           a == IF file = "complete" THEN content[f] ELSE Corrupt
       IN /\ ~AlreadyProcessed(f)
          /\ (local[f] # "absent") => net = "ok"
          /\ \E failAt \in 0..Len(a.members) :
               /\ a.readable <=> failAt # 0
               /\ local' = [local EXCEPT ![f] = file]
               /\ dataset' = WriteRows(dataset, f, MembersWritten(a, failAt))
               /\ log' = [log EXCEPT
                    !.fetched = IF local[f] = "absent" THEN @ \cup {f} ELSE @,
                    !.parsed = @ \cup {f},
                    !.wrote = IF MembersWritten(a, failAt) # {}
                              THEN @ \cup {f} ELSE @,
                    !.procFailed = @ \cup {f}]
    /\ idx' = idx + 1
    /\ UNCHANGED unitVars
    /\ UNCHANGED <<constEnv, fastOnly, run, pc, exit_status, summary, tracker,
                   existing_files, zip_links, dataset0, prev>>

\* scada lines 51-138: the archive is read to its end without an exception
\* reaching the outer try: the file is inserted into processed_files.
ArchProcess ==
    /\ variant \in ArchiveVariants /\ pc = "loop"
    /\ idx <= Len(zip_links)
    /\ LET f == Filename(zip_links[idx])
           file == AfterDownload(f, "ok")
           a == IF file = "complete" THEN content[f] ELSE Corrupt
       IN /\ ~AlreadyProcessed(f)
          /\ a.readable
          /\ local' = [local EXCEPT ![f] = file]
          /\ dataset' = WriteRows(dataset, f, MembersWritten(a, 0))
          /\ tracker' = InsertOrIgnore(tracker, {f})
          /\ log' = [log EXCEPT
               !.fetched = IF local[f] = "absent" THEN @ \cup {f} ELSE @,
               !.parsed = @ \cup {f},
               !.wrote = IF MembersWritten(a, 0) # {} THEN @ \cup {f} ELSE @,
               !.wrReturned = IF MembersWritten(a, 0) # {}
                              THEN @ \cup {f} ELSE @,
               !.saved = IF MembersWritten(a, 0) # {} THEN @ \cup {f} ELSE @,
               !.inserts = Append(@, f)]
    /\ idx' = idx + 1
    /\ UNCHANGED unitVars
    /\ UNCHANGED <<constEnv, fastOnly, run, pc, exit_status, summary,
                   existing_files, zip_links, dataset0, prev>>

\* Whether the requests.get calls of the script carry a timeout: fast
\* passes timeout=30 and timeout=TIMEOUT, the other scripts pass none.
HasTimeout(v) == v = "fast"

\* scada line 36: the listing GET has no timeout; a server that accepts the
\* connection and sends nothing keeps the script waiting for ever.
ArchListingBlocks ==
    /\ variant \in ArchiveVariants /\ pc = "listing"
    /\ ~HasTimeout(variant)
    /\ pc' = "blocked"
    /\ UNCHANGED unitVars
    /\ UNCHANGED <<constEnv, fastOnly, run, exit_status, summary, local,
                   tracker, dataset, existing_files, zip_links, idx, log,
                   dataset0, prev>>

\* scada line 55: the same for the archive GET of a file that is not on
\* disk.
ArchDownloadBlocks ==
    /\ variant \in ArchiveVariants /\ pc = "loop"
    /\ idx <= Len(zip_links)
    /\ ~HasTimeout(variant)
    /\ LET f == Filename(zip_links[idx])
       IN /\ ~AlreadyProcessed(f)
          /\ local[f] = "absent"
          /\ log' = [log EXCEPT !.fetched = @ \cup {f}]
    /\ pc' = "blocked"
    /\ UNCHANGED unitVars
    /\ UNCHANGED <<constEnv, fastOnly, run, exit_status, summary, local,
                   tracker, dataset, existing_files, zip_links, idx,
                   dataset0, prev>>

\* scada lines 140-141: the loop is over, the script ends.
ArchDone ==
    /\ variant \in ArchiveVariants /\ pc = "loop"
    /\ idx > Len(zip_links)
    /\ Exit("0", TRUE)
    /\ UNCHANGED unitVars
    /\ UNCHANGED <<constEnv, fastOnly, run, local, tracker, dataset,
                   existing_files, zip_links, idx, log, dataset0, prev>>

NextArchive ==
    \/ ArchStart \/ ArchDbFail \/ ArchListing \/ ArchListingFail
    \/ ArchListingErrorPage \/ ArchSkip \/ ArchDownloadFail
    \/ ArchProcessFail \/ ArchProcess \/ ArchDone
    \/ ArchListingBlocks \/ ArchDownloadBlocks

\* =========================================================================
\* scripts/Scrap previous years.py  (variant "historic"): local CSV files,
\* collected into batches of FLUSH_EVERY files, tracked at the end.
\* =========================================================================
archOnly == <<new_files, downloaded_files, failed_downloads>>

\* process_csv_file: the rows left after the date, year and cutoff filters;
\* an unreadable file, missing columns or no row left give an empty frame.
process_csv_file(f) ==
    LET a == LocalArchive(f)
        rows == [m \in 1..Len(a.members) |->
                   [member |-> m, kind |-> a.members[m]]]
    IN IF a.readable THEN SelectSeq(rows, LAMBDA r : r.kind = "ok") ELSE <<>>

\* save_batch_to_parquet: the files of the batch whose rows were written;
\* an exception writes nothing and the function returns 0.
save_batch_to_parquet(batch_data, raises) ==
    IF batch_data = <<>> \/ raises THEN <<>> ELSE batch_data

WriteBatch(ds, files) ==
    [u \in DOMAIN ds |->
        IF u[1] \in files /\ u[2] = 1 THEN ds[u] + 1 ELSE ds[u]]

LogSave(l, batch, raises) ==
    [l EXCEPT !.wrote = @ \cup Range(batch),
              !.wrReturned = @ \cup Range(batch),
              !.wrFailed = IF raises THEN @ \cup Range(batch) ELSE @,
              !.saved = @ \cup Range(save_batch_to_parquet(batch, raises))]

\* lines 232-251: the CSV files are found and the tracker is loaded.
HistStart ==
    /\ variant = "historic" /\ pc = "start"
    /\ Listing # <<>>
    /\ zip_links' = Listing
    /\ existing_files' = tracker
    /\ pc' = "loop"
    /\ idx' = 1
    /\ UNCHANGED unitVars
    /\ UNCHANGED <<constEnv, archOnly, run, exit_status, summary, local,
                   tracker, dataset, processed_files, total_records,
                   all_data, log, dataset0, prev>>

\* lines 252-254: the database setup raises: exit() (status 0).
HistDbFail ==
    /\ variant = "historic" /\ pc = "start"
    /\ log' = [log EXCEPT !.fatal = "tracker"]
    /\ Exit("0", FALSE)
    /\ UNCHANGED unitVars
    /\ UNCHANGED <<constEnv, archOnly, run, local, tracker, dataset,
                   existing_files, zip_links, idx, processed_files,
                   total_records, all_data, dataset0, prev>>

\* lines 264-269: the file is in existing_files.
HistSkip ==
    /\ variant = "historic" /\ pc = "loop"
    /\ idx <= Len(zip_links)
    /\ AlreadyProcessed(Filename(zip_links[idx]))
    /\ idx' = idx + 1
    /\ UNCHANGED unitVars
    /\ UNCHANGED <<constEnv, archOnly, run, pc, exit_status, summary, local,
                   tracker, dataset, existing_files, zip_links,
                   processed_files, total_records, all_data, log, dataset0,
                   prev>>

\* lines 274-276: the file gives an empty frame.
HistEmpty ==
    /\ variant = "historic" /\ pc = "loop"
    /\ idx <= Len(zip_links)
    /\ LET f == Filename(zip_links[idx])
       IN /\ ~AlreadyProcessed(f)
          /\ process_csv_file(f) = <<>>
          /\ log' = [log EXCEPT !.parsed = @ \cup {f}]
    /\ idx' = idx + 1
    /\ UNCHANGED unitVars
    /\ UNCHANGED <<constEnv, archOnly, run, pc, exit_status, summary, local,
                   tracker, dataset, existing_files, zip_links,
                   processed_files, total_records, all_data, dataset0, prev>>

\* lines 276-281: the file joins the batch and processed_files; the batch
\* is not full yet.
HistCollect ==
    /\ variant = "historic" /\ pc = "loop"
    /\ idx <= Len(zip_links)
    /\ LET f == Filename(zip_links[idx])
       IN /\ ~AlreadyProcessed(f)
          /\ process_csv_file(f) # <<>>
          /\ Len(all_data) + 1 < FLUSH_EVERY
          /\ all_data' = Append(all_data, f)
          /\ processed_files' = Append(processed_files, f)
          /\ log' = [log EXCEPT !.parsed = @ \cup {f}]
    /\ idx' = idx + 1
    /\ UNCHANGED unitVars
    /\ UNCHANGED <<constEnv, archOnly, run, pc, exit_status, summary, local,
                   tracker, dataset, existing_files, zip_links,
                   total_records, dataset0, prev>>

\* lines 276-287: the file fills the batch, which is saved and cleared.
HistFlush ==
    /\ variant = "historic" /\ pc = "loop"
    /\ idx <= Len(zip_links)
    /\ \E raises \in BOOLEAN :
       LET f == Filename(zip_links[idx])
           combined_data == Append(all_data, f)
           saved == save_batch_to_parquet(combined_data, raises)
       IN /\ ~AlreadyProcessed(f)
          /\ process_csv_file(f) # <<>>
          /\ Len(combined_data) >= FLUSH_EVERY
          /\ processed_files' = Append(processed_files, f)
          /\ dataset' = WriteBatch(dataset, Range(saved))
          /\ total_records' = total_records + Len(saved)
          /\ all_data' = <<>>
          /\ log' = LogSave([log EXCEPT !.parsed = @ \cup {f}],
                            combined_data, raises)
    /\ idx' = idx + 1
    /\ UNCHANGED unitVars
    /\ UNCHANGED <<constEnv, archOnly, run, pc, exit_status, summary, local,
                   tracker, existing_files, zip_links, dataset0, prev>>

\* lines 289-294: what is left of the last batch is saved.
HistFinalBatch ==
    /\ variant = "historic" /\ pc = "loop"
    /\ idx > Len(zip_links)
    /\ \E raises \in BOOLEAN :
       LET saved == save_batch_to_parquet(all_data, raises)
       IN /\ (all_data = <<>>) => ~raises
          /\ dataset' = WriteBatch(dataset, Range(saved))
          /\ total_records' = total_records + Len(saved)
          /\ log' = LogSave(log, all_data, raises)
    /\ pc' = "track"
    /\ UNCHANGED unitVars
    /\ UNCHANGED <<constEnv, archOnly, run, exit_status, summary, local,
                   tracker, existing_files, zip_links, idx, processed_files,
                   all_data, dataset0, prev>>

\* lines 297-341: every file of processed_files is inserted, then the
\* final results are printed and the script ends.
HistTrack ==
    /\ variant = "historic" /\ pc = "track"
    /\ tracker' = InsertOrIgnore(tracker, Range(processed_files))
    /\ log' = [log EXCEPT !.inserts = @ \o processed_files]
    /\ Exit("0", TRUE)
    /\ UNCHANGED unitVars
    /\ UNCHANGED <<constEnv, archOnly, run, local, dataset, existing_files,
                   zip_links, idx, processed_files, total_records, all_data,
                   dataset0, prev>>

\* lines 298-325: the connection for the update raises: a warning is
\* printed, nothing is inserted.
HistTrackFail ==
    /\ variant = "historic" /\ pc = "track"
    /\ processed_files # <<>>
    /\ Exit("0", TRUE)
    /\ UNCHANGED unitVars
    /\ UNCHANGED <<constEnv, archOnly, run, local, tracker, dataset,
                   existing_files, zip_links, idx, processed_files,
                   total_records, all_data, log, dataset0, prev>>

NextHistoric ==
    \/ HistStart \/ HistDbFail \/ HistSkip \/ HistEmpty \/ HistCollect
    \/ HistFlush \/ HistFinalBatch \/ HistTrack \/ HistTrackFail

Next == NextFast \/ NextArchive \/ NextHistoric \/ StartRun

Spec == Init /\ [][Next]_vars

\* One script at a time.
InitFast == Init /\ variant = "fast"
SpecFast == InitFast /\ [][NextFast \/ StartRun]_vars

InitScada == Init /\ variant = "scada"
SpecScada == InitScada /\ [][NextArchive \/ StartRun]_vars

InitCurrent == Init /\ variant = "current"
SpecCurrent == InitCurrent /\ [][NextArchive \/ StartRun]_vars

InitHistoric == Init /\ variant = "historic"
SpecHistoric == InitHistoric /\ [][NextHistoric \/ StartRun]_vars

\* =========================================================================
\* Row level.  The functions that turn the lines of one report file into
\* the rows handed to pq.write_to_dataset, each exercised on its own on
\* every report of up to MaxRows lines.
\* =========================================================================
pipelineVars == <<variant, run, exit_status, summary, content, recent, local,
                  tracker, dataset, existing_files, zip_links, idx,
                  new_files, downloaded_files, failed_downloads,
                  processed_files, total_records, all_data, log, dataset0,
                  prev>>

\* The script of variant v with nothing listed, stored or tracked.
AtRest(v) ==
    /\ variant = v
    /\ run = 1
    /\ exit_status = "running"
    /\ summary = FALSE
    /\ content = [f \in Files(v) |-> Corrupt]
    /\ recent = {}
    /\ local = [f \in Files(v) |-> "absent"]
    /\ tracker = {}
    /\ dataset = EmptyDataset
    /\ existing_files = {}
    /\ zip_links = <<>>
    /\ idx = 0
    /\ new_files = <<>>
    /\ downloaded_files = <<>>
    /\ failed_downloads = 0
    /\ processed_files = <<>>
    /\ total_records = 0
    /\ all_data = <<>>
    /\ log = EmptyLog
    /\ dataset0 = EmptyDataset
    /\ prev = NoPrev

\* ---------------------------------------------- scripts/TradingIS_price_imp.py
\* The texts a field of a D,TRADING,PRICE row can hold, by what the
\* coercions of the writer make of them: "ok" parses as a timestamp, "num"
\* as a number; "bad" is any other non-empty text.
DateTexts == {"ok", "bad"}
PeriodTexts == {"num", "bad"}
RRPTexts == {"num", "N/A", ""}

\* The lines of a report file as csv.reader yields them: the I,TRADING,PRICE
\* header, a D,TRADING,PRICE row of fewer than 12 fields, and the
\* D,TRADING,PRICE rows of at least 12 fields.
HeaderLine ==
    [tag |-> "I", fields |-> "full", SETTLEMENTDATE |-> "ok",
     PERIODID |-> "num", RRP |-> "num"]

ShortLine ==
    [tag |-> "D", fields |-> "short", SETTLEMENTDATE |-> "ok",
     PERIODID |-> "num", RRP |-> "num"]

DataLines ==
    [tag : {"D"}, fields : {"full"}, SETTLEMENTDATE : DateTexts,
     PERIODID : PeriodTexts, RRP : RRPTexts]

ReportLines == {HeaderLine, ShortLine} \cup DataLines

Reports(maxlen) == UNION {[1..n -> ReportLines] : n \in 0..maxlen}

\* process_file_fast, the loop over the rows of one CSV (lines 190-209):
\* all_data after the rows from position i on, price_header telling whether
\* the header row was seen.  A captured row remembers its line.
RECURSIVE process_file_fast_rows(_, _, _)
process_file_fast_rows(lines, i, price_header) ==
    IF i > Len(lines) THEN <<>>
    ELSE LET row == lines[i]
         IN IF row.tag = "I"
            THEN process_file_fast_rows(lines, i + 1, TRUE)
            ELSE IF row.tag = "D" /\ price_header /\ row.fields = "full"
            THEN <<[line |-> i,
                    SETTLEMENTDATE |-> row.SETTLEMENTDATE,
                    PERIODID |-> row.PERIODID,
                    RRP |-> row.RRP]>>
                 \o process_file_fast_rows(lines, i + 1, price_header)
            ELSE process_file_fast_rows(lines, i + 1, price_header)

\* pd.to_datetime(errors='coerce') and pd.to_numeric(errors='coerce').
to_datetime(text) == IF text = "ok" THEN "timestamp" ELSE "NaT"
to_numeric(text) == IF text = "num" THEN "number" ELSE "NaN"

\* write_batch_to_parquet on captured rows (lines 217-262): the frame that
\* reaches pq.write_to_dataset, the return value, and the exception caught
\* by the except branch ("astype": the int16 cast of a PERIODID column
\* holding NaN; "write": pq.write_to_dataset, when raises).  Row order is
\* not modelled (sort_values).
write_batch_to_parquet_rows(batch_data, raises) ==
    LET df == [i \in 1..Len(batch_data) |->
                 [line |-> batch_data[i].line,
                  SETTLEMENTDATE |->
                      to_datetime(batch_data[i].SETTLEMENTDATE),
                  PERIODID |-> to_numeric(batch_data[i].PERIODID),
                  RRP |-> to_numeric(batch_data[i].RRP)]]
        dated == SelectSeq(df, LAMBDA r : r.SETTLEMENTDATE # "NaT")
        valid == SelectSeq(dated,
                           LAMBDA r : r.RRP # "NaN" /\ r.PERIODID # "NaN")
        Returns0(e) == [written |-> <<>>, ret |-> 0, error |-> e]
    IN IF batch_data = <<>> THEN Returns0("none")
       ELSE IF dated = <<>> THEN Returns0("none")
       ELSE IF \E i \in 1..Len(dated) : dated[i].PERIODID = "NaN"
       THEN Returns0("astype")
       ELSE IF valid = <<>> THEN Returns0("none")
       ELSE IF raises THEN Returns0("write")
       ELSE [written |-> valid, ret |-> Len(valid), error |-> "none"]

NoResult == [captured |-> <<>>, written |-> <<>>, ret |-> 0, error |-> "none"]

InitFastRows ==
    /\ AtRest("fast")
    /\ pc = "rows_start"
    /\ unit = "fast_rows"
    /\ input \in Reports(MaxRows)
    /\ result = NoResult

\* line 364: file_data = process_file_fast(filename).
FastRowsParse ==
    /\ unit = "fast_rows" /\ pc = "rows_start"
    /\ result' = [result EXCEPT
                    !.captured = process_file_fast_rows(input, 1, FALSE)]
    /\ pc' = "rows_parsed"
    /\ UNCHANGED <<pipelineVars, unit, input>>

\* lines 366-367: if file_data: records_written = write_batch_to_parquet(..).
FastRowsWrite ==
    /\ unit = "fast_rows" /\ pc = "rows_parsed"
    /\ result.captured # <<>>
    /\ \E raises \in BOOLEAN :
         LET w == write_batch_to_parquet_rows(result.captured, raises)
         IN result' = [captured |-> result.captured, written |-> w.written,
                       ret |-> w.ret, error |-> w.error]
    /\ pc' = "rows_done"
    /\ UNCHANGED <<pipelineVars, unit, input>>

\* lines 370-371: no data found.
FastRowsNoData ==
    /\ unit = "fast_rows" /\ pc = "rows_parsed"
    /\ result.captured = <<>>
    /\ pc' = "rows_done"
    /\ UNCHANGED <<pipelineVars, unit, input, result>>

NextFastRows == FastRowsParse \/ FastRowsWrite \/ FastRowsNoData

SpecFastRows == InitFastRows /\ [][NextFastRows]_vars

\* ------------------------------- process_file_fast over a whole archive
\* The CSV members of an archive, each a sequence of up to MaxLines lines:
\* the header, a short and a full D,TRADING,PRICE row, and a row of
\* another tag.
FullLine ==
    [tag |-> "D", fields |-> "full", SETTLEMENTDATE |-> "ok",
     PERIODID |-> "num", RRP |-> "num"]

OtherLine ==
    [tag |-> "X", fields |-> "full", SETTLEMENTDATE |-> "ok",
     PERIODID |-> "num", RRP |-> "num"]

ArchiveLines == {HeaderLine, ShortLine, FullLine, OtherLine}

ArchiveReports ==
    LET reports == UNION {[1..n -> ArchiveLines] : n \in 0..MaxLines}
    IN UNION {[1..k -> reports] : k \in 1..MaxMembers}

\* The captured rows of member m, each with its member and line.
MemberRows(members, m, price_header) ==
    LET rows == process_file_fast_rows(members[m], 1, price_header)
    IN [i \in 1..Len(rows) |-> [member |-> m, line |-> rows[i].line]]

RECURSIVE process_file_fast_members_shared_header(_, _)
process_file_fast_members_shared_header(members, m) ==
    IF m > Len(members) THEN <<>>
    ELSE MemberRows(members, m,
            \E k \in 1..(m - 1) : \E i \in 1..Len(members[k]) :
                members[k][i].tag = "I")
         \o process_file_fast_members_shared_header(members, m + 1)

\* process_file_fast lines 181-209: the loop over zf.namelist() from member
\* m on; price_header = None at line 190 starts every member afresh.
RECURSIVE process_file_fast_members(_, _)
process_file_fast_members(members, m) ==
    IF m > Len(members) THEN <<>>
    ELSE MemberRows(members, m, FALSE)
         \o process_file_fast_members(members, m + 1)

InitFastArchive ==
    /\ AtRest("fast")
    /\ pc = "archive_start"
    /\ unit = "fast_archive"
    /\ input \in ArchiveReports
    /\ result = [captured |-> <<>>]

\* line 364: file_data = process_file_fast(filename).
FastArchiveParse ==
    /\ unit = "fast_archive" /\ pc = "archive_start"
    /\ result' = [captured |-> process_file_fast_members(input, 1)]
    /\ pc' = "archive_parsed"
    /\ UNCHANGED <<pipelineVars, unit, input>>

NextFastArchive == FastArchiveParse

SpecFastArchive == InitFastArchive /\ [][NextFastArchive]_vars

\* ------------------------------------------------ scripts/DispatchSCADA_imp.py
\* The lines of one extracted CSV: the I,DISPATCH,UNIT_SCADA header and the
\* D,DISPATCH,UNIT_SCADA rows, every row with as many fields as the header.
ScadaLines ==
    {[tag |-> "I", SETTLEMENTDATE |-> "ok", SCADAVALUE |-> "num"]}
    \cup [tag : {"D"}, SETTLEMENTDATE : DateTexts,
          SCADAVALUE : {"num", "bad"}]

ScadaReports(maxlen) == UNION {[1..n -> ScadaLines] : n \in 0..maxlen}

\* lines 77-93: scada_columns is set by a header row wherever it stands,
\* scada_rows collects every data row.
scada_columns(lines) == \E i \in 1..Len(lines) : lines[i].tag = "I"

scada_rows(lines) ==
    LET numbered == [i \in 1..Len(lines) |->
                       [line |-> i, tag |-> lines[i].tag,
                        SETTLEMENTDATE |-> lines[i].SETTLEMENTDATE,
                        SCADAVALUE |-> lines[i].SCADAVALUE]]
    IN SelectSeq(numbered, LAMBDA r : r.tag = "D")

\* lines 99-127: pd.to_datetime with a format raises on the first value
\* that does not match, and the except branch skips the member ("date");
\* SCADAVALUE is coerced and kept; an exception of the write reaches the
\* outer except ("write").  os.remove(csv_path) at line 130 is reached
\* only after the write.
process_scada_rows(rows, raises) ==
    LET df == [i \in 1..Len(rows) |->
                 [line |-> rows[i].line,
                  SETTLEMENTDATE |-> to_datetime(rows[i].SETTLEMENTDATE),
                  SCADAVALUE |-> to_numeric(rows[i].SCADAVALUE)]]
    IN IF \E i \in 1..Len(rows) : rows[i].SETTLEMENTDATE # "ok"
       THEN [written |-> <<>>, ret |-> 0, error |-> "date",
             csv_path |-> "present"]
       ELSE IF raises
       THEN [written |-> <<>>, ret |-> Len(df), error |-> "write",
             csv_path |-> "present"]
       ELSE [written |-> df, ret |-> Len(df), error |-> "none",
             csv_path |-> "absent"]

\* csv_path: whether the extracted CSV is in CSV_DIR.
NoScadaResult ==
    [captured |-> <<>>, written |-> <<>>, ret |-> 0, error |-> "none",
     csv_path |-> "absent"]

InitScadaRows ==
    /\ AtRest("scada")
    /\ pc = "rows_start"
    /\ unit = "scada_rows"
    /\ input \in ScadaReports(MaxRows)
    /\ result = NoScadaResult

\* lines 70-93: extract the member to CSV_DIR and read it.
ScadaRowsRead ==
    /\ unit = "scada_rows" /\ pc = "rows_start"
    /\ result' = [result EXCEPT !.captured = scada_rows(input),
                                !.csv_path = "present"]
    /\ pc' = "rows_parsed"
    /\ UNCHANGED <<pipelineVars, unit, input>>

\* lines 95-97: no data row or no header: continue.
ScadaRowsNoData ==
    /\ unit = "scada_rows" /\ pc = "rows_parsed"
    /\ result.captured = <<>> \/ ~scada_columns(input)
    /\ pc' = "rows_done"
    /\ UNCHANGED <<pipelineVars, unit, input, result>>

\* lines 99-130: build the frame, parse the dates, write.
ScadaRowsWrite ==
    /\ unit = "scada_rows" /\ pc = "rows_parsed"
    /\ result.captured # <<>> /\ scada_columns(input)
    /\ \E raises \in BOOLEAN :
         LET w == process_scada_rows(result.captured, raises)
         IN result' = [captured |-> result.captured, written |-> w.written,
                       ret |-> w.ret, error |-> w.error,
                       csv_path |-> w.csv_path]
    /\ pc' = "rows_done"
    /\ UNCHANGED <<pipelineVars, unit, input>>

NextScadaRows == ScadaRowsRead \/ ScadaRowsNoData \/ ScadaRowsWrite

SpecScadaRows == InitScadaRows /\ [][NextScadaRows]_vars

\* ---------------------------------------------- scripts/Scrap previous years.py
\* The interval index of a SETTLEMENTDATE, on every time of day.
Hours == 0..23
Minutes == 0..59

calculate_period_id_no_shift(hour, minute) ==
    LET total_minutes == hour * 60 + minute
    IN IF total_minutes = 0 THEN 288
       ELSE (total_minutes \div 5) + 1

\* calculate_period_id (lines 69-87); \div is the floor division of //.
calculate_period_id(hour, minute) ==
    LET total_minutes == hour * 60 + minute
    IN IF total_minutes = 0 THEN 288
       ELSE ((total_minutes - 1) \div 5) + 1

period_id_vectorized_no_midnight(hour, minute) ==
    LET total_minutes == hour * 60 + minute
    IN ((total_minutes - 1) \div 5) + 1

\* process_csv_file lines 139-144: the column expression, then the
\* assignment of 288 where total_minutes is 0.
period_id_vectorized(hour, minute) ==
    LET total_minutes == hour * 60 + minute
        PERIODID == ((total_minutes - 1) \div 5) + 1
    IN IF total_minutes = 0 THEN 288 ELSE PERIODID

NoPeriod == [scalar |-> 0, vectorized |-> 0]

InitPeriod ==
    /\ AtRest("historic")
    /\ pc = "period_start"
    /\ unit = "period"
    /\ input \in [hour : Hours, minute : Minutes]
    /\ result = NoPeriod

\* Both computations of PERIODID on the SETTLEMENTDATE of one row.
PeriodCompute ==
    /\ unit = "period" /\ pc = "period_start"
    /\ result' = [scalar |-> calculate_period_id(input.hour, input.minute),
                  vectorized |->
                      period_id_vectorized(input.hour, input.minute)]
    /\ pc' = "period_done"
    /\ UNCHANGED <<pipelineVars, unit, input>>

NextPeriod == PeriodCompute

SpecPeriod == InitPeriod /\ [][NextPeriod]_vars

\* ------------------------------------- scripts/TradingIS_price_current_imp.py
\* One extracted CSV of the current pipeline: the I,TRADING,PRICE header
\* declaring a number of columns, then up to MaxRows data lines.  A data
\* line has a subtype (PRICE, a subtype that begins with PRICE, or another
\* one), 4 tag fields and width payload fields, and a SETTLEMENTDATE text.
PayloadWidths == {28, 30}

Subtypes == {"PRICE", "PRICE_X", "OTHER"}

CurrentDataLines ==
    [kind : {"D"}, subtype : Subtypes, width : PayloadWidths,
     SETTLEMENTDATE : DateTexts]

CurrentReports(maxlen) ==
    [header : PayloadWidths,
     rows : UNION {[1..n -> CurrentDataLines] : n \in 0..maxlen}]

\* The text of a line up to the end of its third field, as the pieces that
\* startswith compares: "PRICE_X" is "PRICE" followed by more characters.
subtype_text(subtype) ==
    IF subtype = "PRICE" THEN <<"PRICE">>
    ELSE IF subtype = "PRICE_X" THEN <<"PRICE", "_X">>
    ELSE <<"OTHER">>

line_text(kind, subtype) ==
    <<kind, ",", "TRADING", ",">> \o subtype_text(subtype) \o <<",">>

\* str.startswith.
startswith(text, prefix) ==
    /\ Len(text) >= Len(prefix)
    /\ SubSeq(text, 1, Len(prefix)) = prefix

\* line 77: if line.startswith("D,TRADING,PRICE").
price_row(l) ==
    startswith(line_text(l.kind, l.subtype),
               <<"D", ",", "TRADING", ",", "PRICE">>)

\* lines 74-78: price_rows over the lines of the file, the header first;
\* a captured row remembers its line.
price_rows(report) ==
    LET header == [kind |-> "I", subtype |-> "PRICE",
                   width |-> report.header, SETTLEMENTDATE |-> "ok"]
        lines == <<header>> \o report.rows
        numbered == [i \in 1..Len(lines) |->
                       [line |-> i,
                        kind |-> lines[i].kind,
                        subtype |-> lines[i].subtype,
                        width |-> lines[i].width,
                        SETTLEMENTDATE |-> lines[i].SETTLEMENTDATE]]
    IN SelectSeq(numbered, price_row)

frame_fits_declared(rows, declared) ==
    \A i \in 1..Len(rows) : rows[i].width = declared

\* line 85: pd.DataFrame(price_rows, columns = 4 names + PRICE_COLUMNS)
\* pads the shorter rows and raises unless the longest row has as many
\* fields as there are column names.
frame_fits(rows, declared) ==
    /\ \A i \in 1..Len(rows) : rows[i].width <= NumPriceColumns
    /\ \E i \in 1..Len(rows) : rows[i].width = NumPriceColumns

\* lines 80-100 and 102-107: what the member loop does with price_rows.
\* "frame" and "write" reach the outer except and leave the file
\* untracked; "date" skips the member and the file is tracked.
process_price_rows(rows, declared, raises) ==
    IF rows = <<>>
    THEN [written |-> <<>>, ret |-> 0, error |-> "none", tracked |-> TRUE]
    ELSE IF ~frame_fits(rows, declared)
    THEN [written |-> <<>>, ret |-> 0, error |-> "frame", tracked |-> FALSE]
    ELSE IF \E i \in 1..Len(rows) : rows[i].SETTLEMENTDATE # "ok"
    THEN [written |-> <<>>, ret |-> 0, error |-> "date", tracked |-> TRUE]
    ELSE IF raises
    THEN [written |-> <<>>, ret |-> 0, error |-> "write", tracked |-> FALSE]
    ELSE [written |-> rows, ret |-> Len(rows), error |-> "none",
          tracked |-> TRUE]

NoCurrentResult ==
    [captured |-> <<>>, written |-> <<>>, ret |-> 0, error |-> "none",
     tracked |-> FALSE]

InitCurrentRows ==
    /\ AtRest("current")
    /\ pc = "rows_start"
    /\ unit = "current_rows"
    /\ input \in CurrentReports(MaxRows)
    /\ result = NoCurrentResult

\* lines 74-78: read the extracted CSV.
CurrentRowsRead ==
    /\ unit = "current_rows" /\ pc = "rows_start"
    /\ result' = [result EXCEPT !.captured = price_rows(input)]
    /\ pc' = "rows_parsed"
    /\ UNCHANGED <<pipelineVars, unit, input>>

\* lines 80-107: frame, date parse, write, tracker insert.
CurrentRowsWrite ==
    /\ unit = "current_rows" /\ pc = "rows_parsed"
    /\ \E raises \in BOOLEAN :
         LET w == process_price_rows(result.captured, input.header, raises)
         IN result' = [captured |-> result.captured, written |-> w.written,
                       ret |-> w.ret, error |-> w.error,
                       tracked |-> w.tracked]
    /\ pc' = "rows_done"
    /\ UNCHANGED <<pipelineVars, unit, input>>

NextCurrentRows == CurrentRowsRead \/ CurrentRowsWrite

SpecCurrentRows == InitCurrentRows /\ [][NextCurrentRows]_vars

NoDuplicates(s) == \A i, j \in 1..Len(s) : s[i] = s[j] => i = j

\* ------------------------------------------------------ the tracker table
\* processed_files* as the rows it holds, in insertion order; filename is
\* its PRIMARY KEY, so a table never starts with two rows of one name.
Names == 1..NumNames

Tables ==
    {t \in UNION {[1..n -> Names] : n \in 0..NumNames} : NoDuplicates(t)}

insert_plain(table, filename) ==
    IF \E i \in 1..Len(table) : table[i] = filename
    THEN [table |-> table, raised |-> TRUE]
    ELSE [table |-> Append(table, filename), raised |-> FALSE]

\* INSERT OR IGNORE INTO processed_files VALUES (?): a row whose key is in
\* the table is ignored without an error.
insert_or_ignore(table, filename) ==
    IF \E i \in 1..Len(table) : table[i] = filename
    THEN [table |-> table, raised |-> FALSE]
    ELSE [table |-> Append(table, filename), raised |-> FALSE]

\* con.executemany (fast, historic) and the single con.execute of the
\* archive variants: the statement once per name, up to the first error.
RECURSIVE executemany(_, _)
executemany(table, names) ==
    IF names = <<>> THEN [table |-> table, raised |-> FALSE]
    ELSE LET r == insert_or_ignore(table, Head(names))
         IN IF r.raised THEN r ELSE executemany(r.table, Tail(names))

InitTracker ==
    /\ \E v \in Variants : AtRest(v)
    /\ pc = "insert_start"
    /\ unit = "tracker"
    /\ input \in [table : Tables, names : [1..1 -> Names] \cup [1..2 -> Names]]
    /\ result = [table |-> <<>>, raised |-> FALSE]

TrackerInsert ==
    /\ unit = "tracker" /\ pc = "insert_start"
    /\ result' = executemany(input.table, input.names)
    /\ pc' = "insert_done"
    /\ UNCHANGED <<pipelineVars, unit, input>>

NextTracker == TrackerInsert

SpecTracker == InitTracker /\ [][NextTracker]_vars

\* ---------------------------------------------- scripts/TradingIS_price_imp.py
\* download_file_fast on one (link, filename), with the file at zip_path
\* and the network as its inputs.  The file is absent, empty (size 0), or
\* non-empty: "junk" from a broken transfer, "complete" otherwise.
ZipStates == {"absent", "empty", "junk", "complete"}

\* How the link is spelt on the listing page (lines 91-98).
LinkForms == {"absolute", "rooted", "relative"}

\* What the transfer does if it is started: the call that raises, if any,
\* and the chunks iter_content yields before that (all of them for "none").
\*   "get"     requests.get raises (connection error, timeout)
\*   "status"  raise_for_status raises (HTTP 4xx, 5xx)
\*   "stream"  iter_content raises after some chunks
\*   "write"   f.write raises OSError after some chunks
Transfers ==
    [fails : {"none", "stream", "write"}, chunks : 0..MaxChunks]
        \cup [fails : {"get", "status"}, chunks : {0}]

full_url(form) ==
    CASE form = "absolute" -> "link"
      [] form = "rooted" -> "BASE_DOMAIN + link"
      [] OTHER -> "URL + link"

\* The two handlers of lines 114-117: every Exception becomes "failed".
Handled(exc) == exc \in {"RequestException", "Exception"}

exception_of(fails) ==
    IF fails \in {"get", "status", "stream"} THEN "RequestException"
    ELSE "Exception"

\* size of the file after open(zip_path, "wb") and the chunks written.
Written(chunks, done) ==
    IF chunks = 0 THEN "empty" ELSE IF done THEN "complete" ELSE "junk"

download_file_fast_exists_only(zip, form, net) ==
    IF zip # "absent"
    THEN [status |-> "exists", file |-> zip, requested |-> FALSE,
          url |-> "none", raised |-> FALSE]
    ELSE IF net.fails \in {"get", "status"}
    THEN [status |-> "failed", file |-> zip, requested |-> TRUE,
          url |-> full_url(form),
          raised |-> ~Handled(exception_of(net.fails))]
    ELSE IF net.fails \in {"stream", "write"}
    THEN [status |-> "failed", file |-> Written(net.chunks, FALSE),
          requested |-> TRUE, url |-> full_url(form),
          raised |-> ~Handled(exception_of(net.fails))]
    ELSE IF Written(net.chunks, TRUE) = "complete"
    THEN [status |-> "downloaded", file |-> "complete", requested |-> TRUE,
          url |-> full_url(form), raised |-> FALSE]
    ELSE [status |-> "failed", file |-> "absent", requested |-> TRUE,
          url |-> full_url(form), raised |-> FALSE]

\* download_file_fast (lines 80-117), path by path.
download_file_fast_at(zip, form, net) ==
    IF zip \in {"junk", "complete"}
    THEN [status |-> "exists", file |-> zip, requested |-> FALSE,
          url |-> "none", raised |-> FALSE]
    ELSE IF net.fails \in {"get", "status"}
    THEN [status |-> "failed", file |-> zip, requested |-> TRUE,
          url |-> full_url(form),
          raised |-> ~Handled(exception_of(net.fails))]
    ELSE IF net.fails \in {"stream", "write"}
    THEN [status |-> "failed", file |-> Written(net.chunks, FALSE),
          requested |-> TRUE, url |-> full_url(form),
          raised |-> ~Handled(exception_of(net.fails))]
    ELSE IF Written(net.chunks, TRUE) = "complete"
    THEN [status |-> "downloaded", file |-> "complete", requested |-> TRUE,
          url |-> full_url(form), raised |-> FALSE]
    ELSE [status |-> "failed", file |-> "absent", requested |-> TRUE,
          url |-> full_url(form), raised |-> FALSE]

NoDownload == [status |-> "none", file |-> "absent", requested |-> FALSE,
               url |-> "none", raised |-> FALSE]

InitDownload ==
    /\ AtRest("fast")
    /\ pc = "download_start"
    /\ unit = "download"
    /\ input \in [zip : ZipStates, form : LinkForms, net : Transfers]
    /\ result = NoDownload

DownloadCall ==
    /\ unit = "download" /\ pc = "download_start"
    /\ result' = download_file_fast_at(input.zip, input.form, input.net)
    /\ pc' = "download_done"
    /\ UNCHANGED <<pipelineVars, unit, input>>

NextDownload == DownloadCall

SpecDownload == InitDownload /\ [][NextDownload]_vars

\* ------------------------------------------- scripts/MTPASA_DUID_Avail_imp.py
\* The candidate list of lines 36-64 on a listing page of up to MaxLinks
\* archive links.  A link is the rank of its name among the names of the
\* directory (sorted() compares the hrefs, which share one prefix); the
\* year in a name does not decrease with the rank: the first `old` names
\* are of 2024, the next of 2025, 2026 and so on.
year_of(link, old) == IF link <= old THEN 2024 ELSE 2024 + (link - old)

\* re.search(r'_202[5-9]|_20[3-9][0-9]', link) on a name of that year.
matches_2025_onwards(year) == year \in 2025..2029 \/ year \in 2030..2099

\* The orders a page can list n names in: by name from any starting point,
\* ascending or descending.
ListingOrders(n) ==
    {[i \in 1..n |-> ((i + r - 1) % n) + 1] : r \in 0..(n - 1)}
        \cup {[i \in 1..n |-> n - ((i + r - 1) % n)] : r \in 0..(n - 1)}

Listings == {<<>>} \cup UNION {ListingOrders(n) : n \in 1..MaxLinks}

\* sorted(all_links)
Insert(x, t) ==
    LET k == Cardinality({i \in 1..Len(t) : t[i] <= x})
    IN SubSeq(t, 1, k) \o <<x>> \o SubSeq(t, k + 1, Len(t))

RECURSIVE sorted(_)
sorted(s) == IF s = <<>> THEN <<>> ELSE Insert(Head(s), sorted(Tail(s)))

\* The second GET of the listing (line 60, outside any try):
\*   "page"       the listing page again
\*   "errorpage"  an error response, unchecked: a page without .zip links
\*   "raises"     requests.get raises and the script dies
Refetches == {"page", "errorpage", "raises"}

NoCandidates == [zip_links |-> <<>>, all_links |-> <<>>,
                 refetched |-> FALSE, raised |-> FALSE]

mtpasa_candidates_unsorted(listing, old, refetch) ==
    LET filtered_links ==
            SelectSeq(listing,
                      LAMBDA l : matches_2025_onwards(year_of(l, old)))
        all_links == IF refetch = "page" THEN listing ELSE <<>>
    IN IF filtered_links # <<>>
       THEN [NoCandidates EXCEPT !.zip_links = filtered_links]
       ELSE IF refetch = "raises"
       THEN [NoCandidates EXCEPT !.refetched = TRUE, !.raised = TRUE]
       ELSE [zip_links |-> LastN(all_links, FALLBACK_LAST),
             all_links |-> all_links, refetched |-> TRUE, raised |-> FALSE]

\* lines 36-64: zip_links when the loop starts.
mtpasa_candidates(listing, old, refetch) ==
    LET filtered_links ==
            SelectSeq(listing,
                      LAMBDA l : matches_2025_onwards(year_of(l, old)))
        all_links == IF refetch = "page" THEN listing ELSE <<>>
    IN IF filtered_links # <<>>
       THEN [NoCandidates EXCEPT !.zip_links = filtered_links]
       ELSE IF refetch = "raises"
       THEN [NoCandidates EXCEPT !.refetched = TRUE, !.raised = TRUE]
       ELSE [zip_links |-> LastN(sorted(all_links), FALLBACK_LAST),
             all_links |-> all_links, refetched |-> TRUE, raised |-> FALSE]

InitCandidates ==
    /\ AtRest("mtpasa")
    /\ pc = "candidates_start"
    /\ unit = "candidates"
    /\ \E l \in Listings, o \in 0..MaxLinks, r \in Refetches :
          /\ o <= Len(l)
          /\ input = [listing |-> l, old |-> o, refetch |-> r]
    /\ result = NoCandidates

CandidatesScrape ==
    /\ unit = "candidates" /\ pc = "candidates_start"
    /\ result' = mtpasa_candidates(input.listing, input.old, input.refetch)
    /\ pc' = "candidates_done"
    /\ UNCHANGED <<pipelineVars, unit, input>>

NextCandidates == CandidatesScrape

SpecCandidates == InitCandidates /\ [][NextCandidates]_vars

\* ---------------------------------------------- scripts/TradingIS_price_imp.py
\* filter_recent_files (lines 122-165) on the text of the links.  All three
\* patterns need eight digits in a row and re.search takes the leftmost
\* match, so what a link offers them is its first run of eight digits,
\* held here as four two-digit numbers, or <<>> when it has no such run.
HrefDigits ==
    { <<>>,
      <<20, 25, 1, 5>>,       \* 20250105
      <<20, 25, 1, 10>>,      \* 20250110
      <<10, 1, 20, 25>>,      \* 10012025
      <<20, 25, 13, 45>>,     \* 20251345
      <<20, 24, 2, 29>>,      \* 20240229
      <<20, 25, 2, 29>> }     \* 20250229

Hrefs(maxlen) == UNION {[1..n -> HrefDigits] : n \in 0..maxlen}

\* datetime.now() - timedelta(days=days_back): a day, and whether the
\* time of day is 00:00:00 exactly.
Cutoffs == [date : {20250105, 20250110}, midnight : BOOLEAN]

days_in_month(year, month) ==
    IF month \in {4, 6, 9, 11} THEN 30
    ELSE IF month # 2 THEN 31
    ELSE IF year % 4 = 0 /\ (year % 100 # 0 \/ year % 400 = 0) THEN 29
    ELSE 28

\* datetime.strptime(text, '%Y%m%d') on eight digits: the day as
\* YYYYMMDD, or 0 for ValueError.
strptime(year, month, day) ==
    IF /\ year >= 1
       /\ month \in 1..12
       /\ day >= 1 /\ day <= days_in_month(year, month)
    THEN year * 10000 + month * 100 + day
    ELSE 0

\* The try block of lines 141-157 for one pattern: groups of 8 or 4-2-2
\* digits are read as YYYYMMDD, groups of 2-2-4 digits as DDMMYYYY.
date_patterns == <<"(\\d{8})", "(\\d{4})(\\d{2})(\\d{2})",
                   "(\\d{2})(\\d{2})(\\d{4})">>

file_date(pattern, link) ==
    IF link = <<>> THEN 0
    ELSE IF pattern \in {1, 2}
    THEN strptime(link[1] * 100 + link[2], link[3], link[4])
    ELSE strptime(link[3] * 100 + link[4], link[2], link[1])

\* file_date >= cutoff_date: file_date is the day at 00:00:00.
not_before(date, cutoff) ==
    date > cutoff.date \/ (date = cutoff.date /\ cutoff.midnight)

\* The pattern loop of one link from pattern p on: the occurrences of the
\* link appended to recent_links.
RECURSIVE try_patterns_no_break(_, _, _)
try_patterns_no_break(link, p, cutoff) ==
    IF p > Len(date_patterns) \/ link = <<>> THEN <<>>
    ELSE IF file_date(p, link) = 0
    THEN try_patterns_no_break(link, p + 1, cutoff)
    ELSE (IF not_before(file_date(p, link), cutoff) THEN <<link>> ELSE <<>>)
             \o try_patterns_no_break(link, p + 1, cutoff)

RECURSIVE try_patterns(_, _, _)
try_patterns(link, p, cutoff) ==
    IF p > Len(date_patterns) \/ link = <<>> THEN <<>>
    ELSE IF file_date(p, link) = 0
    THEN try_patterns(link, p + 1, cutoff)
    ELSE IF not_before(file_date(p, link), cutoff) THEN <<link>> ELSE <<>>

RECURSIVE filter_recent_files_no_break(_, _)
filter_recent_files_no_break(all_links, cutoff) ==
    IF all_links = <<>> THEN <<>>
    ELSE try_patterns_no_break(Head(all_links), 1, cutoff)
             \o filter_recent_files_no_break(Tail(all_links), cutoff)

\* The loop over all_links: recent_links in the order of the appends.
RECURSIVE filter_recent_files_at(_, _)
filter_recent_files_at(all_links, cutoff) ==
    IF all_links = <<>> THEN <<>>
    ELSE try_patterns(Head(all_links), 1, cutoff)
             \o filter_recent_files_at(Tail(all_links), cutoff)

InitFilter ==
    /\ AtRest("fast")
    /\ pc = "filter_start"
    /\ unit = "filter"
    /\ input \in [all_links : Hrefs(MaxHrefs), cutoff : Cutoffs]
    /\ result = <<>>

FilterCall ==
    /\ unit = "filter" /\ pc = "filter_start"
    /\ result' = filter_recent_files_at(input.all_links, input.cutoff)
    /\ pc' = "filter_done"
    /\ UNCHANGED <<pipelineVars, unit, input>>

NextFilter == FilterCall

SpecFilter == InitFilter /\ [][NextFilter]_vars

\* ---------------------------------------------- scripts/Scrap previous years.py
\* process_csv_file at the row level: one source CSV of up to MaxCsvRows
\* rows.  A timestamp is a day yyyymmdd and a time hhmm.
Stamp(day, time) == [ymd |-> day, hm |-> time]

\* what pd.to_datetime(errors='coerce') makes of a text that is no date
NaT == Stamp(0, 0)

SettlementTexts ==
    {NaT, Stamp(20231231, 2355), Stamp(20240608, 2355), Stamp(20240609, 0),
     Stamp(20240609, 5), Stamp(20250101, 0)}

RegionTexts == {"NSW1", ""}
HistoricRrpTexts == {"num", "bad"}

CsvRows == [REGION : RegionTexts, SETTLEMENTDATE : SettlementTexts,
            RRP : HistoricRrpTexts]

SourceCsvs ==
    [columns : {"full", "missing"},
     rows : UNION {[1..n -> CsvRows] : n \in 0..MaxCsvRows}]

dt_year(stamp) == stamp.ymd \div 10000
dt_hour(stamp) == stamp.hm \div 100
dt_minute(stamp) == stamp.hm % 100

earlier(a, b) == a.ymd < b.ymd \/ (a.ymd = b.ymd /\ a.hm < b.hm)

\* pd.to_datetime(CUTOFF_DATE)
cutoff_dt == Stamp(CUTOFF_DATE, 0)

\* lines 134-154 on the rows that passed the date filters.
csv_columns(rows) ==
    LET priced == SelectSeq(rows, LAMBDA r : r.RRP = "num")
        shaped == [k \in 1..Len(priced) |->
                     [REGIONID |-> priced[k].REGION,
                      SETTLEMENTDATE |-> priced[k].SETTLEMENTDATE,
                      RRP |-> priced[k].RRP,
                      PERIODID |->
                          period_id_vectorized(
                              dt_hour(priced[k].SETTLEMENTDATE),
                              dt_minute(priced[k].SETTLEMENTDATE)),
                      year |-> dt_year(priced[k].SETTLEMENTDATE)]]
    IN SelectSeq(shaped, LAMBDA r : r.REGIONID # "")

process_csv_file_rows_through_cutoff(csv, raises) ==
    IF raises \/ csv.columns = "missing" THEN <<>>
    ELSE LET dated == SelectSeq(csv.rows, LAMBDA r : r.SETTLEMENTDATE # NaT)
             in_year == SelectSeq(dated,
                 LAMBDA r : dt_year(r.SETTLEMENTDATE) = TARGET_YEAR)
             before == SelectSeq(in_year,
                 LAMBDA r : earlier(r.SETTLEMENTDATE, cutoff_dt)
                            \/ r.SETTLEMENTDATE = cutoff_dt)
         IN IF before = <<>> THEN <<>> ELSE csv_columns(before)

\* process_csv_file (lines 89-161): the frame it returns; raises is an
\* exception anywhere in its try block.
process_csv_file_rows(csv, raises) ==
    IF raises \/ csv.columns = "missing" THEN <<>>
    ELSE LET dated == SelectSeq(csv.rows, LAMBDA r : r.SETTLEMENTDATE # NaT)
             in_year == SelectSeq(dated,
                 LAMBDA r : dt_year(r.SETTLEMENTDATE) = TARGET_YEAR)
             before == SelectSeq(in_year,
                 LAMBDA r : earlier(r.SETTLEMENTDATE, cutoff_dt))
         IN IF before = <<>> THEN <<>> ELSE csv_columns(before)

NoHistoricRows == [file_data |-> <<>>, combined_data |-> <<>>]

InitHistoricRows ==
    /\ AtRest("historic")
    /\ pc = "csv_start"
    /\ unit = "historic_rows"
    /\ input \in SourceCsvs
    /\ result = NoHistoricRows

\* line 274: file_data = process_csv_file(file_path)
HistoricRowsRead ==
    /\ unit = "historic_rows" /\ pc = "csv_start"
    /\ \E raises \in BOOLEAN :
          result' = [result EXCEPT
                        !.file_data = process_csv_file_rows(input, raises)]
    /\ pc' = "csv_read"
    /\ UNCHANGED <<pipelineVars, unit, input>>

\* lines 276-292: a frame with rows joins all_data, and the concatenation
\* of all_data is the argument of save_batch_to_parquet.
HistoricRowsSave ==
    /\ unit = "historic_rows" /\ pc = "csv_read"
    /\ result.file_data # <<>>
    /\ result' = [result EXCEPT !.combined_data = result.file_data]
    /\ pc' = "csv_saved"
    /\ UNCHANGED <<pipelineVars, unit, input>>

\* line 276: an empty frame is not appended.
HistoricRowsEmpty ==
    /\ unit = "historic_rows" /\ pc = "csv_read"
    /\ result.file_data = <<>>
    /\ pc' = "csv_skipped"
    /\ UNCHANGED <<pipelineVars, unit, input, result>>

NextHistoricRows == HistoricRowsRead \/ HistoricRowsSave \/ HistoricRowsEmpty

SpecHistoricRows == InitHistoricRows /\ [][NextHistoricRows]_vars

\* =========================================================================
\* Properties
\* =========================================================================
\* The previous run reached its final summary with no download failure
\* and no write failure.
PrevRunClean == prev.ended = "summary" /\ ~prev.dlFail /\ ~prev.wrFail

\* C1: fast pipeline: a file whose write_batch_to_parquet call raised is
\* absent from processed_files_current when the run has ended.
C1_FailedWriteLeftUntracked ==
    (variant = "fast" /\ pc = "exited") => log.wrFailed \cap tracker = {}

\* C2: fast pipeline: a filename enters processed_files_current only after
\* its write_batch_to_parquet call has returned, and a run issues at most
\* one insert per filename.
C2_InsertAfterWriteOnce ==
    [][variant = "fast" =>
         /\ \A f \in tracker' \ tracker : f \in log.wrReturned
         /\ NoDuplicates(log'.inserts)]_vars

C2_Witness ==
    /\ variant = "fast" /\ pc = "exited" /\ summary
    /\ log.inserts # <<>>
    /\ Range(log.inserts) \subseteq tracker

\* C3: in every variant, a file that is in the tracker table when the run
\* starts is not requested, read or written during that run.
C3_TrackedFilesUntouched ==
    (log.fetched \cup log.parsed \cup log.wrote) \cap prev.trackerAtStart = {}

C3_Witness ==
    /\ variant = "scada" /\ run = 2 /\ pc = "exited" /\ summary
    /\ prev.trackerAtStart # {}
    /\ log.parsed # {}

\* C4 as stated: after a clean first run, the second run of the fast
\* pipeline downloads nothing, parses nothing, writes nothing and leaves
\* the tracker and the dataset as they were.
C4_SecondRunDoesNothing ==
    (variant = "fast" /\ run > 1 /\ PrevRunClean) =>
        /\ log.fetched = {} /\ log.parsed = {} /\ log.wrote = {}
        /\ tracker = prev.trackerAtStart
        /\ dataset = dataset0

\* C4 amended: after a clean first run, the second run of the fast pipeline
\* downloads nothing and writes nothing and leaves the tracker and the
\* dataset as they were; the only files it parses again are files that
\* yield no rows (they were never tracked).
C4_SecondRunIdempotent ==
    (variant = "fast" /\ run > 1 /\ PrevRunClean) =>
        /\ log.fetched = {} /\ log.wrote = {}
        /\ \A f \in log.parsed : process_file_fast(f) = <<>>
        /\ tracker = prev.trackerAtStart
        /\ dataset = dataset0

C4_Witness ==
    /\ variant = "fast" /\ run = 2 /\ PrevRunClean
    /\ pc = "exited" /\ summary
    /\ prev.trackerAtStart # {}
    /\ log.parsed # {}

\* C5: fast pipeline: when a run is interrupted in the processing phase, no
\* file has rows in the dataset while its name is absent from the tracker.
C5_InterruptLeavesNoUntrackedRows ==
    (variant = "fast" /\ exit_status = "killed") =>
        \A f \in Files(variant) : RowCount(dataset, f) > 0 => f \in tracker

\* C6: scada pipeline: a tracked file has every member that holds target
\* data rows in the dataset.
C6_TrackedMeansEveryMemberWritten ==
    variant = "scada" =>
        \A f \in tracker : \A m \in 1..Len(content[f].members) :
            content[f].members[m] # "none" => dataset[<<f, m>>] > 0

\* C7: scada pipeline: an archive without any target data row is never
\* inserted into processed_files.
C7_EmptyArchiveLeftUntracked ==
    variant = "scada" =>
        \A f \in tracker : \E m \in 1..Len(content[f].members) :
            content[f].members[m] # "none"

\* C8: historical import: every filename a run inserts belongs to a batch
\* that save_batch_to_parquet wrote.
C8_TrackedMeansBatchSaved ==
    (variant = "historic" /\ pc = "exited") =>
        (tracker \ prev.trackerAtStart) \subseteq log.saved

\* C9: fast pipeline: a run exits non-zero only when the listing or the
\* tracker is unavailable; with failed downloads it still reaches the final
\* summary and exits zero.
C9_NonZeroExitOnlyWhenFatal ==
    (variant = "fast" /\ pc = "exited" /\ exit_status # "killed") =>
        /\ exit_status = "1" => log.fatal \in {"listing", "tracker"}
        /\ log.dlFailed # {} => (summary /\ exit_status = "0")

\* C10: scada pipeline: once the listing is fetched, a failed download or a
\* processing exception does not end the run: the run ends with status 0,
\* every listed file that was not tracked has been attempted, and no file
\* that failed is in processed_files.
C10_FailureDoesNotAbortRun ==
    variant = "scada" =>
        /\ (log.dlFailed \cup log.procFailed) \cap tracker = {}
        /\ (pc = "exited" /\ log.fatal = "none") =>
              /\ exit_status = "0"
              /\ \A f \in Range(Listing) :
                    f \in prev.trackerAtStart \cup log.fetched \cup log.parsed

C10_Witness ==
    /\ variant = "scada" /\ pc = "exited" /\ log.fatal = "none"
    /\ \E f \in log.dlFailed \cup log.procFailed :
         \E g \in log.parsed \ log.procFailed : g > f /\ g \in tracker

\* C11: fast pipeline: a download that failed after some chunks were written
\* to zip_path never leaves a file that a later download_file_fast call
\* reports as "exists", that is, never a file among downloaded_files.
C11_PartialDownloadNeverComplete ==
    variant = "fast" =>
        \A i \in 1..Len(downloaded_files) :
            local[downloaded_files[i]] # "junk"

\* C12: current pipeline: a run that reaches its end has requested again
\* every untracked file whose local archive is unreadable, so that a valid
\* archive on the remote can replace it.
C12_UnreadableArchiveRetried ==
    (variant = "current" /\ pc = "exited" /\ summary
        /\ log.fatal = "none") =>
        \A f \in Range(Listing) :
            (f \notin tracker /\ local[f] = "junk") => f \in log.fetched

\* C13: scada pipeline: when the listing GET returns an error status the
\* run ends with a non-zero exit status and has downloaded, written and
\* tracked nothing.
C13_ListingErrorStatusIsFatal ==
    (variant = "scada" /\ pc = "exited" /\ log.fatal = "errorpage") =>
        /\ exit_status = "1"
        /\ log.fetched = {} /\ log.wrote = {} /\ log.inserts = <<>>

\* C14: fast pipeline: when the tracker store cannot be opened the run has
\* exited with status 1 and has fetched no listing, downloaded nothing,
\* parsed nothing, written nothing and inserted nothing.
C14_TrackerFailureExitsFirst ==
    (variant = "fast" /\ log.fatal = "tracker") =>
        /\ pc = "exited" /\ exit_status = "1" /\ ~summary
        /\ zip_links = <<>>
        /\ log.fetched = {} /\ log.parsed = {} /\ log.wrote = {}
        /\ log.inserts = <<>>
        /\ tracker = prev.trackerAtStart
        /\ dataset = dataset0

C14_Witness ==
    /\ variant = "fast" /\ run = 2 /\ log.fatal = "tracker"
    /\ pc = "exited"
    /\ prev.ended = "summary" /\ prev.trackerAtStart # {}

\* A report file with its header first and then only D,TRADING,PRICE rows
\* of at least 12 fields.
WellFormedReport(lines) ==
    /\ Len(lines) >= 1
    /\ lines[1].tag = "I"
    /\ \A i \in 2..Len(lines) :
          lines[i].tag = "D" /\ lines[i].fields = "full"

WrittenLines == {result.written[j].line : j \in 1..Len(result.written)}

\* C15: fast pipeline: for a well-formed report file with N D,TRADING,PRICE
\* rows the writer receives N records, and unless pq.write_to_dataset
\* fails the rows written are exactly the rows whose SETTLEMENTDATE parses.
C15_OnlyBadTimestampRowsRemoved ==
    (unit = "fast_rows" /\ pc = "rows_done" /\ WellFormedReport(input)
        /\ result.error # "write") =>
        /\ Len(result.captured) = Len(input) - 1
        /\ WrittenLines =
              {i \in 2..Len(input) : input[i].SETTLEMENTDATE = "ok"}

\* C16: fast writer: in a batch whose PERIODID values are all numeric and
\* whose dataset write does not fail, a row with a parseable timestamp and
\* an RRP of "N/A" or "" raises nothing and is written with a null RRP.
C16_NullRrpRowWritten ==
    (unit = "fast_rows" /\ pc = "rows_done" /\ result.error # "write"
        /\ \A k \in 1..Len(result.captured) :
              result.captured[k].PERIODID = "num") =>
        \A k \in 1..Len(result.captured) :
            (result.captured[k].RRP \in {"N/A", ""}
                /\ result.captured[k].SETTLEMENTDATE = "ok") =>
                /\ result.error = "none"
                /\ \E j \in 1..Len(result.written) :
                      /\ result.written[j].line = result.captured[k].line
                      /\ result.written[j].RRP = "NaN"

\* C17: fast writer: a non-numeric PERIODID in one row raises nothing
\* inside the writer, and unless pq.write_to_dataset fails every other row
\* of the file with a parseable timestamp and numeric RRP and PERIODID is
\* written.
C17_BadPeriodIdIsolated ==
    (unit = "fast_rows" /\ pc = "rows_done" /\ result.error # "write"
        /\ \E k \in 1..Len(result.captured) :
              result.captured[k].PERIODID = "bad") =>
        /\ result.error = "none"
        /\ \A k \in 1..Len(result.captured) :
              (/\ result.captured[k].SETTLEMENTDATE = "ok"
               /\ result.captured[k].RRP = "num"
               /\ result.captured[k].PERIODID = "num") =>
                  result.captured[k].line \in WrittenLines

\* C18: scada pipeline: in a report file with a header, a data row whose
\* SETTLEMENTDATE cannot be parsed is the only kind of record dropped:
\* unless the write fails, the rows written are exactly the data rows
\* whose SETTLEMENTDATE parses.
C18_OnlyBadDateRecordDropped ==
    (unit = "scada_rows" /\ pc = "rows_done" /\ scada_columns(input)
        /\ result.error # "write") =>
        WrittenLines =
            {result.captured[k].line : k \in
                {k \in 1..Len(result.captured) :
                    result.captured[k].SETTLEMENTDATE = "ok"}}

\* C19: historical import: both computations of the interval index give
\* 288 for 00:00, 1 for 00:05 and 223 for 18:35.
C19_IntervalIndexExamples ==
    (unit = "period" /\ pc = "period_done") =>
        /\ input = [hour |-> 0, minute |-> 0] =>
              (result.scalar = 288 /\ result.vectorized = 288)
        /\ input = [hour |-> 0, minute |-> 5] =>
              (result.scalar = 1 /\ result.vectorized = 1)
        /\ input = [hour |-> 18, minute |-> 35] =>
              (result.scalar = 223 /\ result.vectorized = 223)

C19_Witness ==
    /\ unit = "period" /\ pc = "period_done"
    /\ input = [hour |-> 18, minute |-> 35]
    /\ result.scalar = 223 /\ result.vectorized = 223

\* A time of day on a 5-minute boundary.
OnBoundary(t) == t.minute % 5 = 0

\* C20: calculate_period_id gives an index in 1..288 for every hour 0..23
\* and minute 0..59, and no other 5-minute boundary of the day has the
\* index of a time on a 5-minute boundary.
C20_IntervalIndexRangeAndDistinct ==
    (unit = "period" /\ pc = "period_done") =>
        /\ result.scalar \in 1..288
        /\ OnBoundary(input) =>
              \A t \in [hour : Hours, minute : Minutes] :
                  (OnBoundary(t) /\ t # input) =>
                      calculate_period_id(t.hour, t.minute) # result.scalar

C20_Witness ==
    /\ unit = "period" /\ pc = "period_done"
    /\ input = [hour |-> 23, minute |-> 55]
    /\ result.scalar = 287

\* Three rows tagged D,TRADING,PRICE with w payload fields and valid dates.
ThreeRows(report, w) ==
    /\ Len(report.rows) = 3
    /\ \A i \in 1..3 :
          /\ report.rows[i].subtype = "PRICE"
          /\ report.rows[i].width = w
          /\ report.rows[i].SETTLEMENTDATE = "ok"

\* The report of the scenario: the header declares the w columns too.
ThreePriceRows(report, w) == report.header = w /\ ThreeRows(report, w)

\* C21 as stated: current pipeline: for a report file with a header
\* declaring 28 columns and 3 D,TRADING,PRICE rows of 28 payload fields,
\* unless the dataset write fails, 3 records with 28 fields are written
\* and the file is tracked.
C21_ThreeRowsOf28Written ==
    (unit = "current_rows" /\ pc = "rows_done" /\ result.error # "write"
        /\ ThreePriceRows(input, 28)) =>
        /\ Len(result.written) = 3
        /\ \A j \in 1..Len(result.written) : result.written[j].width = 28
        /\ result.tracked

\* C21 amended: the frame has the 30 names of PRICE_COLUMNS whatever the
\* header declares: unless the dataset write fails, 3 D,TRADING,PRICE rows
\* of 30 payload fields with valid dates are written with their 30 fields
\* and the file is tracked, while 3 rows of 28 payload fields raise in the
\* frame constructor, nothing is written and the file is not tracked.
C21_ThreeRowsOf30Written ==
    (unit = "current_rows" /\ pc = "rows_done" /\ result.error # "write") =>
        /\ ThreeRows(input, NumPriceColumns) =>
              /\ Len(result.written) = 3
              /\ \A j \in 1..Len(result.written) :
                    result.written[j].width = NumPriceColumns
              /\ result.tracked
        /\ ThreePriceRows(input, 28) =>
              (result.written = <<>> /\ ~result.tracked)

C21_Witness ==
    /\ unit = "current_rows" /\ pc = "rows_done"
    /\ ThreePriceRows(input, NumPriceColumns)
    /\ Len(result.written) = 3 /\ result.tracked

\* C22: current pipeline: every row that reaches the writer has the tag
\* triple D,TRADING,PRICE exactly.
C22_OnlyExactPriceRowsCaptured ==
    (unit = "current_rows" /\ pc = "rows_done") =>
        \A j \in 1..Len(result.written) :
            result.written[j].kind = "D"
               /\ result.written[j].subtype = "PRICE"

\* C23: scada pipeline: when the member loop is done with a member, the
\* CSV it extracted to CSV_DIR is gone, whichever path it took.
C23_ExtractedCsvRemoved ==
    (unit = "scada_rows" /\ pc = "rows_done") => result.csv_path = "absent"

\* C24 as stated: fast pipeline: a run whose listing has links never ends
\* in phase 1 for lack of candidates: when no link passes the date filter
\* the candidate list is a fallback and not empty.
C24_FilterFallsBack ==
    (variant = "fast" /\ zip_links # <<>>
        /\ filter_recent_files(zip_links) = <<>>) =>
        pc # "exited"

\* C24 amended: fast pipeline: when no listed link passes the date filter
\* there is no fallback: the candidate list is empty and the run ends in
\* phase 1 with exit status 0, without a download, a parse, a write or a
\* tracker insert.
C24_NoRecentLinksEndsRun ==
    (variant = "fast" /\ zip_links # <<>>
        /\ filter_recent_files(zip_links) = <<>>
        /\ pc # "phase1") =>
        /\ pc = "exited" /\ exit_status = "0" /\ ~summary
        /\ new_files = <<>> /\ downloaded_files = <<>>
        /\ log.fetched = {} /\ log.parsed = {} /\ log.wrote = {}
        /\ log.inserts = <<>>
        /\ tracker = prev.trackerAtStart

C24_Witness ==
    /\ variant = "fast" /\ pc = "exited" /\ exit_status = "0"
    /\ zip_links # <<>>
    /\ filter_recent_files(zip_links) = <<>>

\* C25: fast pipeline, phase 2: after k iterations of the download loop the
\* ready files and the failed files together are the first k new files;
\* after the phase every new file is either ready or failed, never both,
\* and len(downloaded_files) + failed_downloads = len(new_files).
C25_EveryNewFileHasOneStatus ==
    variant = "fast" =>
        /\ pc = "phase2" =>
              /\ Len(downloaded_files) + failed_downloads = idx - 1
              /\ Range(downloaded_files) \cup log.dlFailed
                    = {Filename(new_files[i]) : i \in 1..(idx - 1)}
        /\ (pc \notin {"start", "phase0", "phase1", "phase2"}
               /\ new_files # <<>>) =>
              /\ Len(downloaded_files) + failed_downloads = Len(new_files)
              /\ Range(downloaded_files) \cup log.dlFailed
                    = {Filename(new_files[i]) : i \in 1..Len(new_files)}
              /\ Range(downloaded_files) \cap log.dlFailed = {}
              /\ NoDuplicates(downloaded_files)

C25_Witness ==
    /\ variant = "fast" /\ pc = "phase3"
    /\ Len(new_files) = 2
    /\ Filename(new_files[1]) \in log.dlFailed
    /\ downloaded_files = <<Filename(new_files[2])>>
    /\ failed_downloads = 1

\* C26: in every variant, inserting names into the tracker table raises no
\* error, leaves a table that holds every name once, and leaves the table
\* as it was when every inserted name was in it already.
C26_InsertIdempotent ==
    (unit = "tracker" /\ pc = "insert_done") =>
        /\ ~result.raised
        /\ NoDuplicates(result.table)
        /\ Range(result.table) = Range(input.table) \cup Range(input.names)
        /\ Range(input.names) \subseteq Range(input.table) =>
              result.table = input.table

C26_Witness ==
    /\ unit = "tracker" /\ pc = "insert_done"
    /\ input.table # <<>>
    /\ input.names[1] \in Range(input.table)
    /\ result.table = input.table

\* C27: scada pipeline: a run is never left waiting on a network call that
\* has no timeout, so every run comes to its end.
C27_NoNetworkCallBlocks ==
    variant = "scada" => pc # "blocked"

\* C28: fast writer: no row of the dataset is held twice: a rerun that
\* writes the rows of a file again replaces or skips them.
C28_RerunAddsNoSecondCopy ==
    variant = "fast" =>
        \A u \in DOMAIN dataset : dataset[u] <= 1

\* C29: scada pipeline: across the runs, the rows of each archive member
\* are appended to the dataset at most once.
C29_MemberRowsAppendedOnce ==
    variant = "scada" =>
        \A u \in DOMAIN dataset : dataset[u] <= 1

\* C30: process_file_fast: a D,TRADING,PRICE row is captured exactly when
\* an I,TRADING,PRICE header stands earlier in the same report file and
\* the row has at least 12 fields; no other row is captured.
C30_CapturedIffHeaderBefore ==
    (unit = "fast_archive" /\ pc = "archive_parsed") =>
        LET captured == Range(result.captured)
        IN /\ \A m \in 1..Len(input) : \A i \in 1..Len(input[m]) :
                 input[m][i].tag = "D" =>
                    ([member |-> m, line |-> i] \in captured
                       <=> /\ input[m][i].fields = "full"
                           /\ \E j \in 1..(i - 1) : input[m][j].tag = "I")
           /\ \A c \in captured : input[c.member][c.line].tag = "D"
           /\ NoDuplicates(result.captured)

C30_Witness ==
    /\ unit = "fast_archive" /\ pc = "archive_parsed"
    /\ input = <<(<<HeaderLine, FullLine>>), (<<FullLine>>)>>
    /\ result.captured = <<[member |-> 1, line |-> 2]>>


\* C31: download_file_fast returns one of "downloaded", "exists", "failed"
\* and never raises; it returns "exists", with no request issued, exactly
\* when the local zip exists with size greater than zero; and after a
\* "failed" result caused by an empty body no local file remains.
C31_DownloadContract ==
    (unit = "download" /\ pc = "download_done") =>
        /\ result.status \in {"downloaded", "exists", "failed"}
        /\ ~result.raised
        /\ (result.status = "exists") <=> (input.zip \in {"junk", "complete"})
        /\ (result.status = "exists") <=> ~result.requested
        /\ (/\ result.status = "failed"
            /\ input.net.fails = "none" /\ input.net.chunks = 0)
               => result.file = "absent"

\* An empty file left by an earlier run, then an empty body: the call
\* asks the network again, fails, and removes the file.
C31_Witness ==
    /\ unit = "download" /\ pc = "download_done"
    /\ input.zip = "empty"
    /\ input.net = [fails |-> "none", chunks |-> 0]
    /\ result.status = "failed" /\ result.requested
    /\ result.file = "absent"


Ascending(s) == \A i, j \in 1..Len(s) : i < j => s[i] < s[j]

\* C32: MTPASA: the candidate list is the links matching the 2025-onwards
\* pattern, in listing order; only when no link matches is it the last 10
\* links of the page (as scraped for the fallback) in ascending name order.
C32_CandidatesFilteredElseLastTen ==
    (unit = "candidates" /\ pc = "candidates_done" /\ ~result.raised) =>
        LET matching ==
                {i \in 1..Len(input.listing) :
                    matches_2025_onwards(
                        year_of(input.listing[i], input.old))}
            c == result.zip_links
            page == result.all_links
        IN IF matching # {}
           THEN /\ ~result.refetched
                /\ Len(c) = Cardinality(matching)
                /\ \A k \in 1..Len(c) :
                      \E i \in matching :
                          /\ c[k] = input.listing[i]
                          /\ Cardinality({j \in matching : j < i}) = k - 1
           ELSE /\ result.refetched
                /\ Ascending(c)
                /\ Len(c) = (IF Len(page) < FALLBACK_LAST
                             THEN Len(page) ELSE FALLBACK_LAST)
                /\ Range(c) \subseteq Range(page)
                /\ \A a \in Range(page) \ Range(c) :
                      \A b \in Range(c) : a < b

\* More than 10 links, none of 2025 onwards, listed out of name order: the
\* fallback keeps ten of them.
C32_Witness ==
    /\ unit = "candidates" /\ pc = "candidates_done"
    /\ Len(input.listing) > FALLBACK_LAST
    /\ input.old = Len(input.listing)
    /\ ~Ascending(input.listing)
    /\ input.refetch = "page"
    /\ Len(result.zip_links) = FALLBACK_LAST


\* The patterns whose match on the link parses to a valid date.
ParsingPatterns(link) ==
    {p \in 1..Len(date_patterns) : file_date(p, link) # 0}

FirstParsing(link) ==
    CHOOSE p \in ParsingPatterns(link) :
        \A q \in ParsingPatterns(link) : p <= q

\* C33: filter_recent_files returns a subsequence of its input (same
\* relative order, each input position at most once), and keeps a link if
\* and only if the first pattern that parses to a valid date gives a date
\* not earlier than now minus days_back.
C33_FilterIsSubsequenceOfRecent ==
    (unit = "filter" /\ pc = "filter_done") =>
        LET links == input.all_links
            kept == {i \in 1..Len(links) :
                        /\ ParsingPatterns(links[i]) # {}
                        /\ not_before(
                               file_date(FirstParsing(links[i]), links[i]),
                               input.cutoff)}
        IN /\ Len(result) = Cardinality(kept)
           /\ \A i \in kept :
                 result[Cardinality({j \in kept : j <= i})] = links[i]

\* A link read as DDMMYYYY after both YYYYMMDD readings failed is kept
\* between a dropped link and a kept one.
C33_Witness ==
    /\ unit = "filter" /\ pc = "filter_done"
    /\ input.all_links =
           << <<20, 25, 13, 45>>, <<10, 1, 20, 25>>, <<20, 25, 1, 10>> >>
    /\ input.cutoff = [date |-> 20250110, midnight |-> TRUE]
    /\ result = << <<10, 1, 20, 25>>, <<20, 25, 1, 10>> >>


\* C34: historical import: every row that reaches save_batch_to_parquet
\* has a SETTLEMENTDATE in TARGET_YEAR and strictly before CUTOFF_DATE.
C34_SavedRowsBeforeCutoff ==
    (unit = "historic_rows") =>
        \A k \in 1..Len(result.combined_data) :
            /\ dt_year(result.combined_data[k].SETTLEMENTDATE) = TARGET_YEAR
            /\ result.combined_data[k].SETTLEMENTDATE.ymd < CUTOFF_DATE

\* A file holding the last interval before the cutoff and the interval on
\* the cutoff: only the first reaches save_batch_to_parquet.
C34_Witness ==
    /\ unit = "historic_rows" /\ pc = "csv_saved"
    /\ \E i, j \in 1..Len(input.rows) :
          /\ input.rows[i] = [REGION |-> "NSW1",
                              SETTLEMENTDATE |-> Stamp(20240608, 2355),
                              RRP |-> "num"]
          /\ input.rows[j] = [REGION |-> "NSW1",
                              SETTLEMENTDATE |-> Stamp(CUTOFF_DATE, 0),
                              RRP |-> "num"]
    /\ Len(result.combined_data) = 1
    /\ result.combined_data[1].SETTLEMENTDATE = Stamp(20240608, 2355)


\* C35: in every variant the tracker table only grows: no step of any run
\* removes or renames a tracked filename, so a filename tracked after one
\* run is still tracked after every later run.
C35_TrackerOnlyGrows == [][tracker \subseteq tracker']_vars

\* A later run inserts into a table that held a filename when it started.
C35_Witness ==
    /\ run > 1
    /\ prev.trackerAtStart # {}
    /\ prev.trackerAtStart \subseteq tracker
    /\ tracker \ prev.trackerAtStart # {}


RECURSIVE SumSeq(_)
SumSeq(s) == IF s = <<>> THEN 0 ELSE Head(s) + SumSeq(Tail(s))

\* C36: fast pipeline: at every point of a run the files to be tracked are
\* among the ready files, the ready files among the new files, and the new
\* files are none of the filenames tracked when the run started; the
\* total_records of the final summary is the sum of the counts that
\* write_batch_to_parquet returned for the processed files.
C36_FileSetsNestedAndTotalIsSum ==
    (variant = "fast" /\ unit = "none") =>
        /\ Range(processed_files) \subseteq Range(downloaded_files)
        /\ Range(downloaded_files)
               \subseteq {Filename(new_files[i]) : i \in 1..Len(new_files)}
        /\ {Filename(new_files[i]) : i \in 1..Len(new_files)}
               \cap prev.trackerAtStart = {}
        /\ Len(log.returned) = Len(processed_files)
        /\ summary => total_records = SumSeq(log.returned)

\* A run ends with its summary after one ready file gave no rows to track
\* and the writer returned a positive count for the other.
C36_Witness ==
    /\ variant = "fast" /\ pc = "exited" /\ summary
    /\ Len(new_files) = 2
    /\ Len(downloaded_files) = 2
    /\ Len(processed_files) = 1
    /\ total_records > 0
    /\ total_records = SumSeq(log.returned)


\* C37: historical import: for every time of day the vectorized PERIODID
\* of process_csv_file equals the value of the scalar calculate_period_id.
C37_VectorizedEqualsScalar ==
    (unit = "period" /\ pc = "period_done") =>
        result.vectorized = result.scalar

\* Both computations on 00:00, where the column expression alone gives 0
\* and the assignment of line 143 makes it 288.
C37_Witness ==
    /\ unit = "period" /\ pc = "period_done"
    /\ input = [hour |-> 0, minute |-> 0]
    /\ ((input.hour * 60 + input.minute - 1) \div 5) + 1 = 0
    /\ result.vectorized = 288 /\ result.scalar = 288

====
